---- MODULE Spec2Model ----
(***************************************************************************)
(* State-machine model of the risk-gating core of the trading bot:         *)
(*   RiskManager and ExecutionGate   (risk_manager.py)                     *)
(*   Position and PositionManager    (position_manager.py)                 *)
(*   MarketStateEngine               (market_state_engine.py)              *)
(* and of the strategies and loops around it:                              *)
(*   strategy systems and engine     (eth_fakeout_strategy_system.py,      *)
(*                                    fvg_liquidity_strategy_system.py,    *)
(*                                    auto_trading_engine.py)              *)
(*   MultiTimeframeAnalyzer          (multi_timeframe_analyzer.py)         *)
(*   FakeoutStrategy                 (fakeout_strategy.py)                 *)
(*   FVGStrategy, LiquidityAnalyzer  (fvg_strategy.py, fvg_signal.py,      *)
(*                                    liquidity_analyzer.py)               *)
(*                                                                         *)
(* Money amounts are integers (USDT).  The wall clock `now` counts minutes *)
(* since construction.  Floating-point ratios that the code only compares  *)
(* against thresholds are kept as exact fractions <<numerator,             *)
(* denominator>> and compared by cross-multiplication.                     *)
(***************************************************************************)
EXTENDS Integers, Sequences, FiniteSets, TLC

VARIABLES
    now,      \* datetime.now(), in minutes
    op,       \* name of the step that produced the current state
    ret,      \* what the last completed call returned
    rm,       \* the RiskManager object
    gate,     \* the ExecutionGate object
    pm,       \* the PositionManager object owned by the gate
    lock,     \* PositionManager._lock: 0 when free, else the holding thread
    pc,       \* per thread: position inside a PositionManager method
    targ,     \* per thread: arguments of the method it is executing
    mse,      \* the MarketStateEngine object
    out,      \* the MarketStateInfo records the last analysis produced, by symbol
    args,     \* the arguments of the last completed call
    trip_at,  \* history: when update_pnl last left a trip condition true
              \* (NoTime initially and after a manual reset_circuit_breaker)
    held,     \* per thread: the Position reference it keeps (<<>> is None)
    sys,      \* the strategy system object that owns the components above
    worker,   \* the system's run flag, state and the worker thread of its loop
    fetcher,  \* the DataFetcher object: its cache and the times it was filled
    exchange, \* the exchange behind the API client: its clock and its candles
    threads   \* the threading.Thread objects the system created, and its owner

vars == <<now, op, ret, rm, gate, pm, lock, pc, targ, mse, out, args, trip_at, held,
          sys, worker, fetcher, exchange, threads>>

\* the objects that only the market data path and the thread bookkeeping touch
Peripherals == <<fetcher, exchange, threads>>

-----------------------------------------------------------------------------
(* Bounds of the model *)

MaxTime == 40          \* the clock stops advancing here
TickMinutes == 5       \* granularity of the clock
MaxTrades == 4         \* update_pnl calls explored per run
NumThreads == 2        \* threads calling into the PositionManager
MaxHistory == 2        \* analyze() calls explored per engine
MaxExecuted == 2       \* trades executed per run of a strategy system
MaxLoops == 2          \* loop iterations counted in stats['total_loops']
MaxRecent == 3         \* candles chosen freely at the end of a candle list
MaxKlines == 16        \* candles in the longest list handed to the FVG strategy
MaxSwings == 4         \* swing candles in a candle list of the LiquidityAnalyzer
MaxTouches == 2        \* increment_touch calls explored per zone

-----------------------------------------------------------------------------
(* Shared helpers *)

NoTime == 0 - 1        \* Optional[datetime] = None

Max(a, b) == IF a >= b THEN a ELSE b

Min(a, b) == IF a <= b THEN a ELSE b

Abs(a) == IF a >= 0 THEN a ELSE 0 - a

\* fractions <<n, d>> with d > 0
RatLt(x, y) == x[1] * y[2] < y[1] * x[2]

RatGt(x, y) == RatLt(y, x)

RECURSIVE SeqMax(_)
SeqMax(s) == IF Len(s) = 1 THEN s[1] ELSE Max(s[1], SeqMax(Tail(s)))

RECURSIVE SeqSum(_)
SeqSum(s) == IF s = <<>> THEN 0 ELSE s[1] + SeqSum(Tail(s))

\* the uniform shape of a return value: ok/reason for (bool, str) tuples,
\* val for a number, pos for an Optional[Position] (<<>> is None)
Ret(ok, reason, val, pos) == [ok |-> ok, reason |-> reason, val |-> val, pos |-> pos]

NoRet == Ret(TRUE, "", 0, <<>>)

-----------------------------------------------------------------------------
(* RiskManager *)

max_drawdown_percent == 5
max_consecutive_losses == 3
daily_loss_limit == 30
CooldownMinutes == 30

\* max_drawdown is a float percentage; the model keeps floor(percent * DrawdownScale),
\* which preserves both the ordering and the comparison with the integer threshold
DrawdownScale == 100

PnlValues == {0 - 20, 0 - 10, 15}

InitialBalances == {1000}

\* RiskMetrics and the manager's own attributes in one record.  avg_win and avg_loss
\* are the quotients total_win_amount / winning_trades and total_loss_amount /
\* losing_trades and are not stored; equity_curve keeps the balances of its
\* (datetime, balance) tuples, the only part that is read back.
RiskManagerInit ==
    [ max_drawdown_percent   |-> max_drawdown_percent,
      max_consecutive_losses |-> max_consecutive_losses,
      daily_loss_limit       |-> daily_loss_limit,
      total_trades           |-> 0,
      winning_trades         |-> 0,
      losing_trades          |-> 0,
      total_pnl              |-> 0,
      max_drawdown           |-> 0,
      consecutive_losses     |-> 0,
      hist_max_consecutive_losses |-> 0,
      total_win_amount       |-> 0,
      total_loss_amount      |-> 0,
      circuit_breaker_state  |-> "NORMAL",
      circuit_breaker_time   |-> NoTime,
      daily_start_time       |-> 0,
      daily_pnl              |-> 0,
      equity_curve           |-> <<>>,
      initial_balance        |-> 0 ]

set_initial_balance(r, balance) ==
    [r EXCEPT !.initial_balance = balance,
              !.equity_curve = Append(r.equity_curve, balance)]

\* variant: the trip recorded without its time
_trigger_circuit_breaker_untimed(r, t) ==
    [r EXCEPT !.circuit_breaker_state = "TRIGGERED"]

_trigger_circuit_breaker(r, t) ==
    [r EXCEPT !.circuit_breaker_state = "TRIGGERED",
              !.circuit_breaker_time = t]

\* variant: the three thresholds compared strictly
_check_circuit_breaker_strict(r, t) ==
    IF r.max_drawdown > r.max_drawdown_percent * DrawdownScale
        THEN _trigger_circuit_breaker(r, t)
    ELSE IF r.consecutive_losses > r.max_consecutive_losses
        THEN _trigger_circuit_breaker(r, t)
    ELSE IF r.daily_pnl < 0 - r.daily_loss_limit
        THEN _trigger_circuit_breaker(r, t)
    ELSE r

_check_circuit_breaker(r, t) ==
    IF r.max_drawdown >= r.max_drawdown_percent * DrawdownScale
        THEN _trigger_circuit_breaker(r, t)
    ELSE IF r.consecutive_losses >= r.max_consecutive_losses
        THEN _trigger_circuit_breaker(r, t)
    ELSE IF r.daily_pnl <= 0 - r.daily_loss_limit
        THEN _trigger_circuit_breaker(r, t)
    ELSE r

\* (peak - current_balance) / peak * 100 if peak > 0 else 0
Drawdown(peak, balance) ==
    IF peak > 0 THEN ((peak - balance) * 100 * DrawdownScale) \div peak ELSE 0

\* variant: the latest drawdown overwrites the high-water mark
update_max_drawdown_last(old, drawdown) == drawdown

update_max_drawdown(old, drawdown) == Max(old, drawdown)

update_pnl(r, pnl, t) ==
    LET win == pnl > 0
        streak == IF win THEN 0 ELSE r.consecutive_losses + 1
        balance == r.initial_balance + r.total_pnl + pnl
        peak == SeqMax(Append(r.equity_curve, balance))
        r1 == [r EXCEPT
                 !.total_pnl = @ + pnl,
                 !.daily_pnl = @ + pnl,
                 !.total_trades = @ + 1,
                 !.winning_trades = IF win THEN @ + 1 ELSE @,
                 !.losing_trades = IF win THEN @ ELSE @ + 1,
                 !.consecutive_losses = streak,
                 !.hist_max_consecutive_losses = IF win THEN @ ELSE Max(@, streak),
                 !.total_win_amount = IF win THEN @ + pnl ELSE @,
                 !.total_loss_amount = IF win THEN @ ELSE @ + Abs(pnl),
                 !.max_drawdown = update_max_drawdown(@, Drawdown(peak, balance)),
                 !.equity_curve = Append(@, balance)]
    IN  _check_circuit_breaker(r1, t)

\* variant: a reset that also clears the current losing streak
reset_circuit_breaker_streak(r, t) ==
    [r EXCEPT !.circuit_breaker_state = "NORMAL",
              !.circuit_breaker_time = NoTime,
              !.daily_pnl = 0,
              !.daily_start_time = t,
              !.consecutive_losses = 0]

reset_circuit_breaker(r, t) ==
    [r EXCEPT !.circuit_breaker_state = "NORMAL",
              !.circuit_breaker_time = NoTime,
              !.daily_pnl = 0,
              !.daily_start_time = t]

\* returns the manager after the call together with the (bool, reason) tuple;
\* val carries the remaining cooldown minutes of the "circuit_breaker" answer
is_allowed_to_trade(r, t) ==
    LET triggered == r.circuit_breaker_state = "TRIGGERED"
        elapsed == triggered /\ r.circuit_breaker_time # NoTime
                   /\ t - r.circuit_breaker_time > CooldownMinutes
        r1 == IF elapsed THEN reset_circuit_breaker(r, t) ELSE r
    IN  IF triggered /\ ~elapsed
            THEN [rm |-> r,
                  ret |-> Ret(FALSE, "circuit_breaker",
                              IF r.circuit_breaker_time # NoTime
                                  THEN Max(0, CooldownMinutes - (t - r.circuit_breaker_time))
                                  ELSE 0, <<>>)]
        ELSE IF r1.daily_pnl <= 0 - r1.daily_loss_limit
            THEN [rm |-> r1, ret |-> Ret(FALSE, "daily_loss", 0, <<>>)]
        ELSE IF r1.consecutive_losses >= r1.max_consecutive_losses
            THEN [rm |-> r1, ret |-> Ret(FALSE, "consecutive_losses", 0, <<>>)]
        ELSE [rm |-> r1, ret |-> Ret(TRUE, "allowed", 0, <<>>)]

-----------------------------------------------------------------------------
(* Position and PositionManager *)

Symbols == {"BTCUSDT", "ETHUSDT", "BNBUSDT"}

\* entry_time is never read and is left out; order_id is <<>> for None
Position(symbol, side, entry_price, quantity, stop_loss, take_profit) ==
    [ symbol |-> symbol, side |-> side, entry_price |-> entry_price,
      quantity |-> quantity, stop_loss |-> stop_loss, take_profit |-> take_profit,
      status |-> "ACTIVE", exit_price |-> 0, exit_time |-> NoTime, pnl |-> 0,
      order_id |-> <<>> ]

\* the positions callers hand to add_position
PositionInputs ==
    { Position(s, "LONG", 100, 100, 95, 110) : s \in Symbols } \cup
    { Position(s, "SHORT", 100, 100, 105, 90) : s \in Symbols }

ExitPrices == {90, 100, 110}

MaxPositionsChoices == {2, 3}

Threads == 1..NumThreads

\* variant: the side of the position ignored
calculate_pnl_long_only(p, current_price) ==
    ((current_price - p.entry_price) * p.quantity) \div p.entry_price

calculate_pnl(p, current_price) ==
    IF p.side = "LONG"
        THEN ((current_price - p.entry_price) * p.quantity) \div p.entry_price
        ELSE ((p.entry_price - current_price) * p.quantity) \div p.entry_price

PositionManagerInit(max_positions) ==
    [ max_positions |-> max_positions,
      positions |-> [s \in {} |-> 0],    \* dict symbol -> Position
      position_count |-> 0 ]

InMap(m, symbol) == symbol \in DOMAIN m.positions

\* variant: no check for an existing position of the symbol
add_position_rejects_capacity_only(m, p) ==
    m.position_count >= m.max_positions

\* the two rejections at the head of add_position
add_position_rejects(m, p) ==
    \/ m.position_count >= m.max_positions
    \/ InMap(m, p.symbol)

\* self.positions[position.symbol] = position; self._position_count += 1
add_position_insert(m, p) ==
    [m EXCEPT !.positions = [s \in DOMAIN @ \cup {p.symbol} |->
                                IF s = p.symbol THEN p ELSE @[s]],
              !.position_count = @ + 1]

\* the Position object after close_position has written its exit fields
closed_position(p, exit_price, t) ==
    LET pnl == calculate_pnl(p, exit_price)
    IN  [p EXCEPT !.exit_price = exit_price,
                  !.exit_time = t,
                  !.pnl = pnl,
                  !.status = IF pnl > 0 THEN "PROFIT_TAKEN" ELSE "STOPPED"]

\* del self.positions[symbol]; self._position_count = max(0, count - 1)
close_position_remove(m, symbol) ==
    [m EXCEPT !.positions = [s \in DOMAIN @ \ {symbol} |-> @[s]],
              !.position_count = Max(0, @ - 1)]

clear_all_positions(m) ==
    [m EXCEPT !.positions = [s \in {} |-> 0], !.position_count = 0]

is_at_capacity(m) == m.position_count >= m.max_positions

\* Position objects are shared by reference: a reference taken from the map
\* is kept as the object's current fields and whether the object is still
\* the one stored in the map under its symbol
Reference(p) == <<[pos |-> p, inmap |-> TRUE]>>

\* the writes of close_position to the object stored under symbol, as seen
\* through every reference to that object; `del` takes it out of the map
written_through(h, symbol, position) ==
    [t \in DOMAIN h |->
        IF h[t] # <<>> /\ h[t][1].inmap /\ h[t][1].pos.symbol = symbol
            THEN <<[pos |-> position, inmap |-> FALSE]>>
            ELSE h[t]]

\* self.positions.clear(): the objects stay as they are, out of the map
dropped_from_map(h) ==
    [t \in DOMAIN h |->
        IF h[t] # <<>> THEN <<[h[t][1] EXCEPT !.inmap = FALSE]>> ELSE h[t]]

\* variant: the status of the position not looked at
should_stop_loss_any_status(p, current_price) ==
    IF p.stop_loss = 0
        THEN FALSE
        ELSE IF p.side = "LONG" THEN current_price <= p.stop_loss
                                ELSE current_price >= p.stop_loss

should_stop_loss(p, current_price) ==
    IF p.stop_loss = 0 \/ p.status # "ACTIVE"
        THEN FALSE
        ELSE IF p.side = "LONG" THEN current_price <= p.stop_loss
                                ELSE current_price >= p.stop_loss

should_take_profit(p, current_price) ==
    IF p.take_profit = 0 \/ p.status # "ACTIVE"
        THEN FALSE
        ELSE IF p.side = "LONG" THEN current_price >= p.take_profit
                                ELSE current_price <= p.take_profit

\* variant: the method body entered without taking the lock
LockFreeIgnored(t) == pc[t] = "idle"

\* `with self._lock:` can be entered by thread t

LockFree(t) == pc[t] = "idle" /\ lock = 0

Enter(t, where, a) ==
    /\ LockFree(t)
    /\ lock' = t
    /\ pc' = [pc EXCEPT ![t] = where]
    /\ targ' = [targ EXCEPT ![t] = a]

\* leaving the `with` block by return
Leave(t) ==
    /\ lock' = 0
    /\ pc' = [pc EXCEPT ![t] = "idle"]
    /\ targ' = [targ EXCEPT ![t] = <<>>]

OtherObjects == <<now, rm, trip_at, gate, mse, out, sys, worker, Peripherals>>

AddPositionEnter(t, p) ==
    /\ Enter(t, "add_check", <<p>>)
    /\ op' = "lock"
    /\ ret' = NoRet
    /\ args' = <<>>
    /\ UNCHANGED pm
    /\ UNCHANGED <<OtherObjects, held>>

AddPositionReject(t) ==
    /\ pc[t] = "add_check"
    /\ add_position_rejects(pm, targ[t][1])
    /\ Leave(t)
    /\ op' = "add_position"
    /\ ret' = Ret(FALSE, targ[t][1].symbol, 0, <<>>)
    /\ args' = targ[t]
    /\ UNCHANGED pm
    /\ UNCHANGED <<OtherObjects, held>>

AddPositionPass(t) ==
    /\ pc[t] = "add_check"
    /\ ~add_position_rejects(pm, targ[t][1])
    /\ pc' = [pc EXCEPT ![t] = "add_insert"]
    /\ op' = "add_checked"
    /\ ret' = NoRet
    /\ args' = <<>>
    /\ UNCHANGED <<pm, lock, targ>>
    /\ UNCHANGED <<OtherObjects, held>>

AddPositionInsert(t) ==
    /\ pc[t] = "add_insert"
    /\ pm' = add_position_insert(pm, targ[t][1])
    /\ Leave(t)
    /\ op' = "add_position"
    /\ ret' = Ret(TRUE, targ[t][1].symbol, 0, <<>>)
    /\ args' = targ[t]
    /\ UNCHANGED <<OtherObjects, held>>

ClosePositionEnter(t, symbol, exit_price) ==
    /\ Enter(t, "close_check", <<symbol, exit_price>>)
    /\ op' = "lock"
    /\ ret' = NoRet
    /\ args' = <<>>
    /\ UNCHANGED pm
    /\ UNCHANGED <<OtherObjects, held>>

ClosePositionMissing(t) ==
    /\ pc[t] = "close_check"
    /\ ~InMap(pm, targ[t][1])
    /\ Leave(t)
    /\ op' = "close_position"
    /\ ret' = Ret(FALSE, targ[t][1], targ[t][2], <<>>)
    /\ args' = targ[t]
    /\ UNCHANGED pm
    /\ UNCHANGED <<OtherObjects, held>>

ClosePositionFound(t) ==
    /\ pc[t] = "close_check"
    /\ InMap(pm, targ[t][1])
    /\ pc' = [pc EXCEPT ![t] = "close_body"]
    /\ op' = "close_checked"
    /\ ret' = NoRet
    /\ args' = <<>>
    /\ UNCHANGED <<pm, lock, targ>>
    /\ UNCHANGED <<OtherObjects, held>>

ClosePositionBody(t) ==
    /\ pc[t] = "close_body"
    /\ LET symbol == targ[t][1]
           position == closed_position(pm.positions[symbol], targ[t][2], now)
       IN  /\ pm' = close_position_remove(pm, symbol)
           /\ ret' = Ret(TRUE, symbol, targ[t][2], <<position>>)
           /\ held' = written_through(held, symbol, position)
    /\ Leave(t)
    /\ op' = "close_position"
    /\ args' = targ[t]
    /\ UNCHANGED OtherObjects

ClearAllPositions(t) ==
    /\ LockFree(t)
    /\ pm' = clear_all_positions(pm)
    /\ held' = dropped_from_map(held)
    /\ op' = "clear_all_positions"
    /\ ret' = NoRet
    /\ args' = <<>>
    /\ UNCHANGED <<lock, pc, targ>>
    /\ UNCHANGED OtherObjects

\* with self._lock: return self.positions.get(symbol)
GetPosition(t, symbol) ==
    /\ LockFree(t)
    /\ held' = [held EXCEPT ![t] =
                    IF InMap(pm, symbol) THEN Reference(pm.positions[symbol]) ELSE <<>>]
    /\ op' = "get_position"
    /\ ret' = Ret(InMap(pm, symbol), symbol, 0,
                  IF InMap(pm, symbol) THEN <<pm.positions[symbol]>> ELSE <<>>)
    /\ args' = <<symbol>>
    /\ UNCHANGED <<pm, lock, pc, targ>>
    /\ UNCHANGED OtherObjects

\* position.should_stop_loss(current_price) on a kept reference; no lock is taken
ShouldStopLoss(t, current_price) ==
    /\ pc[t] = "idle"
    /\ held[t] # <<>>
    /\ op' = "should_stop_loss"
    /\ ret' = Ret(should_stop_loss(held[t][1].pos, current_price), "", current_price, <<>>)
    /\ args' = <<held[t][1].pos, current_price>>
    /\ UNCHANGED <<pm, lock, pc, targ, held>>
    /\ UNCHANGED OtherObjects

ShouldTakeProfit(t, current_price) ==
    /\ pc[t] = "idle"
    /\ held[t] # <<>>
    /\ op' = "should_take_profit"
    /\ ret' = Ret(should_take_profit(held[t][1].pos, current_price), "", current_price, <<>>)
    /\ args' = <<held[t][1].pos, current_price>>
    /\ UNCHANGED <<pm, lock, pc, targ, held>>
    /\ UNCHANGED OtherObjects

-----------------------------------------------------------------------------
(* ExecutionGate *)

min_trade_interval == 10
gate_max_positions == 3

\* the 0.3 of `body_ratio < 0.3`
min_body_ratio == <<3, 10>>

\* min_stop_loss_distance=0.01 as the orchestration loops pass it
min_stop_loss_distance == <<1, 100>>

ExecutionGateInit ==
    [ last_trade_time |-> NoTime,
      min_trade_interval |-> min_trade_interval,
      max_positions |-> gate_max_positions,
      current_positions |-> 0 ]

Kline(o, h, l, c) == [open |-> o, high |-> h, low |-> l, close |-> c]

body_size(k) == Abs(k.close - k.open)

range_size(k) == k.high - k.low

\* candle lists handed to check: none, a body of exactly 0.3 of the range,
\* an indecisive latest candle, a flat latest candle
KlineInputs ==
    { <<>>,
      <<Kline(100, 110, 100, 103)>>,
      <<Kline(100, 110, 100, 108), Kline(100, 110, 100, 102)>>,
      <<Kline(100, 100, 100, 100)>> }

\* signals handed to check; has_prices is hasattr(signal, 'stop_loss') and
\* hasattr(signal, 'entry_price')
Signal(has_prices, entry_price, stop_loss) ==
    [has_prices |-> has_prices, entry_price |-> entry_price, stop_loss |-> stop_loss]

SignalInputs ==
    { Signal(FALSE, 0, 0), Signal(TRUE, 1000, 990), Signal(TRUE, 1000, 1005) }

Raise(what) == Ret(FALSE, what, 0, <<>>)

\* variant: the candle check moved in front of the interval and capacity checks
check_body_first(g, m, signal, klines, min_sl, t) ==
    IF klines # <<>> /\ range_size(klines[Len(klines)]) = 0
        THEN Raise("ZeroDivisionError")
    ELSE IF klines # <<>>
            /\ RatLt(<<body_size(klines[Len(klines)]), range_size(klines[Len(klines)])>>,
                     min_body_ratio)
        THEN Ret(FALSE, "candle_body", 0, <<>>)
    ELSE IF g.last_trade_time # NoTime /\ t - g.last_trade_time < g.min_trade_interval
        THEN Ret(FALSE, "trade_interval",
                 (g.min_trade_interval - (t - g.last_trade_time)) * 60, <<>>)
    ELSE IF is_at_capacity(m)
        THEN Ret(FALSE, "max_positions", g.max_positions, <<>>)
    ELSE IF signal.has_prices
            /\ RatLt(<<Abs(signal.stop_loss - signal.entry_price), signal.entry_price>>, min_sl)
        THEN Ret(FALSE, "stop_distance", 0, <<>>)
    ELSE Ret(TRUE, "passed", 0, <<>>)

\* val of the "trade_interval" answer is the remaining wait in seconds; a latest
\* candle with high = low makes body_size / range_size raise ZeroDivisionError
check(g, m, signal, klines, min_sl, t) ==
    IF g.last_trade_time # NoTime /\ t - g.last_trade_time < g.min_trade_interval
        THEN Ret(FALSE, "trade_interval",
                 (g.min_trade_interval - (t - g.last_trade_time)) * 60, <<>>)
    ELSE IF is_at_capacity(m)
        THEN Ret(FALSE, "max_positions", g.max_positions, <<>>)
    ELSE IF klines # <<>> /\ range_size(klines[Len(klines)]) = 0
        THEN Raise("ZeroDivisionError")
    ELSE IF klines # <<>>
            /\ RatLt(<<body_size(klines[Len(klines)]), range_size(klines[Len(klines)])>>,
                     min_body_ratio)
        THEN Ret(FALSE, "candle_body", 0, <<>>)
    ELSE IF signal.has_prices
            /\ RatLt(<<Abs(signal.stop_loss - signal.entry_price), signal.entry_price>>, min_sl)
        THEN Ret(FALSE, "stop_distance", 0, <<>>)
    ELSE Ret(TRUE, "passed", 0, <<>>)

record_trade(g, t) == [g EXCEPT !.last_trade_time = t]

-----------------------------------------------------------------------------
(* MarketStateEngine *)

RatMin(x, y) == IF RatLt(x, y) THEN x ELSE y

RatMax(x, y) == IF RatLt(x, y) THEN y ELSE x

RatAdd(x, y) == <<x[1] * y[2] + y[1] * x[2], x[2] * y[2]>>

RatNeg(x) == <<0 - x[1], x[2]>>

atr_sleep_threshold == <<5, 1000>>
atr_active_threshold == <<2, 100>>
volume_active_multiplier == <<15, 10>>
funding_sleep_threshold == <<0 - 1, 10000>>
funding_aggressive_threshold == <<1, 10000>>
max_history_length == 100

MarketStateEngineInit(symbol, enable_sleep_filter) ==
    [ symbol |-> symbol,
      enable_sleep_filter |-> enable_sleep_filter,
      atr_history |-> <<>> ]

\* funding_rate is Optional[float]: <<>> is None, <<r>> carries the fraction r
_determine_state(e, atr_ratio, volume_ratio, funding_rate, atr_avg_ratio) ==
    LET has_funding == funding_rate # <<>>
        negative_funding == has_funding /\ RatLt(funding_rate[1], funding_sleep_threshold)
        positive_funding == has_funding /\ RatGt(funding_rate[1], funding_aggressive_threshold)
        is_sleep == /\ e.enable_sleep_filter
                    /\ \/ RatLt(atr_ratio, atr_sleep_threshold)
                       \/ RatLt(atr_avg_ratio, <<8, 10>>)
                       \/ negative_funding
        twice_multiplier == <<2 * volume_active_multiplier[1], volume_active_multiplier[2]>>
        is_aggressive == \/ RatGt(atr_ratio, atr_active_threshold)
                         \/ RatGt(atr_avg_ratio, <<2, 1>>)
                         \/ RatGt(volume_ratio, twice_multiplier)
                         \/ positive_funding
    IN  IF is_sleep
            THEN [state |-> "SLEEP",
                  reasons |-> <<"atr_low">>
                      \o (IF RatLt(volume_ratio, <<1, 1>>) THEN <<"volume_low">> ELSE <<>>)
                      \o (IF negative_funding THEN <<"negative_funding">> ELSE <<>>)]
        ELSE IF is_aggressive
            THEN [state |-> "AGGRESSIVE",
                  reasons |-> <<"high_volatility">>
                      \o (IF RatGt(atr_ratio, atr_active_threshold) THEN <<"atr_breakout">> ELSE <<>>)
                      \o (IF RatGt(volume_ratio, twice_multiplier) THEN <<"volume_surge">> ELSE <<>>)
                      \o (IF positive_funding THEN <<"positive_funding">> ELSE <<>>)]
        ELSE [state |-> "ACTIVE",
              reasons |-> <<"normal">>
                  \o (IF RatGt(volume_ratio, volume_active_multiplier)
                          THEN <<"active_volume">> ELSE <<>>)]

_calculate_score(state, atr_ratio, volume_ratio, funding_rate) ==
    LET base_score == CASE state = "SLEEP" -> 10
                        [] state = "ACTIVE" -> 50
                        [] state = "AGGRESSIVE" -> 80
        atr_score == RatMin(<<30, 1>>, <<atr_ratio[1] * 1000, atr_ratio[2]>>)
        volume_score == RatMin(<<20, 1>>,
                               <<(volume_ratio[1] - volume_ratio[2]) * 20, volume_ratio[2]>>)
        scaled == <<funding_rate[1][1] * 100000, funding_rate[1][2]>>
        funding_score ==
            IF funding_rate = <<>> THEN <<0, 1>>
            ELSE IF funding_rate[1][1] > 0 THEN RatMin(<<10, 1>>, scaled)
            ELSE RatNeg(RatMin(<<5, 1>>, <<Abs(scaled[1]), scaled[2]>>))
        total == RatAdd(RatAdd(<<base_score, 1>>, atr_score),
                        RatAdd(volume_score, funding_score))
    IN  RatMax(<<0, 1>>, RatMin(<<100, 1>>, total))

\* what the DataFetcher hands to one analyze() call
MarketData(atr, price, latest_volume, volume_ma, funding_rate) ==
    [ failed |-> FALSE, atr |-> atr, price |-> price, latest_volume |-> latest_volume,
      volume_ma |-> volume_ma, funding_rate |-> funding_rate ]

FetchFailed ==
    [ failed |-> TRUE, atr |-> 0, price |-> 0, latest_volume |-> 0,
      volume_ma |-> 0, funding_rate |-> <<>> ]

\* quiet, normal and volatile markets, a volume surge with positive funding,
\* negative funding, and a fetch that fails
MarketDataInputs ==
    { MarketData(3, 1000, 10, 10, <<>>),
      MarketData(10, 1000, 10, 10, <<>>),
      MarketData(30, 1000, 10, 10, <<>>),
      MarketData(10, 1000, 40, 10, << <<2, 10000>> >>),
      MarketData(10, 1000, 10, 10, << <<0 - 2, 10000>> >>),
      FetchFailed }

MarketStateInfo(state, atr, atr_ratio, volume_ratio, funding_rate, score, reasons) ==
    [ state |-> state, atr |-> atr, atr_ratio |-> atr_ratio, volume_ratio |-> volume_ratio,
      funding_rate |-> funding_rate, score |-> score, reasons |-> reasons ]

\* analyze() on data that was fetched: the engine afterwards and the info returned
analyze(e, d) ==
    LET atr_ratio == IF d.price > 0 THEN <<d.atr, d.price>> ELSE <<0, 1>>
        volume_ratio == IF d.volume_ma > 0 THEN <<d.latest_volume, d.volume_ma>> ELSE <<1, 1>>
        appended == Append(e.atr_history, d.atr)
        history == IF Len(appended) > max_history_length THEN Tail(appended) ELSE appended
        \* atr / (sum(history) / len(history)) if the average is > 0 else 1.0
        atr_avg_ratio == IF SeqSum(history) > 0
                             THEN <<d.atr * Len(history), SeqSum(history)>>
                             ELSE <<1, 1>>
        st == _determine_state(e, atr_ratio, volume_ratio, d.funding_rate, atr_avg_ratio)
        score == _calculate_score(st.state, atr_ratio, volume_ratio, d.funding_rate)
    IN  [ engine |-> [e EXCEPT !.atr_history = history],
          info |-> MarketStateInfo(st.state, d.atr, atr_avg_ratio, volume_ratio,
                                   d.funding_rate, score, st.reasons) ]

AnalysisFailed ==
    MarketStateInfo("SLEEP", 0, <<0, 1>>, <<0, 1>>, <<>>, <<0, 1>>, <<"analysis_failed">>)

\* variant: a symbol whose analysis raises is left out of the results
analyze_batch_skips_failed(e, symbols, data) ==
    [ s \in {x \in symbols : ~data[x].failed} |->
        analyze(MarketStateEngineInit(s, TRUE), data[s]).info ]

\* analyze_batch(symbols) with data[s] what the fetcher yields for symbol s:
\* each symbol is analysed by a temporary engine built with the default arguments
analyze_batch(e, symbols, data) ==
    [ s \in symbols |->
        IF data[s].failed
            THEN AnalysisFailed
            ELSE analyze(MarketStateEngineInit(s, TRUE), data[s]).info ]

-----------------------------------------------------------------------------
(* Strategy systems: MultiSymbolFakeoutSystem and FVGLiquidityStrategySystem *)

SystemKinds == {"fakeout", "fvg"}

\* enable_simulation is config.system.enable_simulation, True by default
StrategySystemInit(kind, enable_simulation) ==
    [ kind |-> kind, enable_simulation |-> enable_simulation, trades_executed |-> 0 ]

\* the fields of a FakeoutSignal / FVGSignal that _execute_trade reads
TradeSignal(signal_type, entry_price, stop_loss, take_profit) ==
    [ signal_type |-> signal_type, entry_price |-> entry_price,
      stop_loss |-> stop_loss, take_profit |-> take_profit ]

TradeSignalInputs ==
    { TradeSignal("BUY", 100, 95, 110), TradeSignal("SELL", 100, 105, 90) }

\* the symbols the orchestration loop trades
TradeSymbols == {"BTCUSDT", "ETHUSDT"}

\* position sizes worth_trading_filter.calculate_position_size hands back
PositionSizes == {0, 100}

\* quantity=100.0 of a simulated position
simulated_quantity == 100

\* Position(symbol=..., side=LONG if BUY else SHORT, ..., order_id=...); an order
\* id is kept as its kind: <<"SIM">> for f"SIM_{timestamp}", <<"ORDER">> for the
\* exchange's result.get('orderId')
position_of(symbol, signal, quantity, order_id) ==
    [ Position(symbol, IF signal.signal_type = "BUY" THEN "LONG" ELSE "SHORT",
               signal.entry_price, quantity, signal.stop_loss, signal.take_profit)
        EXCEPT !.order_id = order_id ]

\* add_position as one call: the manager afterwards
add_position(m, p) ==
    IF add_position_rejects(m, p) THEN m ELSE add_position_insert(m, p)

\* what one _execute_trade call leaves behind: the three objects, the number of
\* place_market_order calls it made and the Position it built (<<>> for none)
Executed(g, m, s, placed, created) ==
    [ gate |-> g, pm |-> m, sys |-> s, placed |-> placed, created |-> created ]

\* the live branch, the same text in both systems; a rejected add_position is
\* followed by a second, closing place_market_order
live_trade(g, m, s, symbol, signal, position_size, order_failed, t) ==
    IF position_size <= 0
        THEN Executed(g, m, s, 0, <<>>)
    ELSE IF order_failed
        THEN Executed(g, m, s, 1, <<>>)
    ELSE LET position == position_of(symbol, signal, position_size, <<"ORDER">>)
         IN  Executed(record_trade(g, t), add_position(m, position),
                      [s EXCEPT !.trades_executed = @ + 1],
                      IF add_position_rejects(m, position) THEN 2 ELSE 1,
                      <<position>>)

\* MultiSymbolFakeoutSystem._execute_trade
execute_trade_fakeout(g, m, s, symbol, signal, position_size, order_failed, t) ==
    IF s.enable_simulation
        THEN LET position == position_of(symbol, signal, simulated_quantity, <<"SIM">>)
             IN  Executed(record_trade(g, t), add_position(m, position),
                          [s EXCEPT !.trades_executed = @ + 1], 0, <<position>>)
        ELSE live_trade(g, m, s, symbol, signal, position_size, order_failed, t)

\* FVGLiquidityStrategySystem._execute_trade; primary_signal is
\* confluence.primary_signal, <<>> for None
execute_trade_fvg(g, m, s, symbol, primary_signal, position_size, order_failed, t) ==
    IF primary_signal = <<>>
        THEN Executed(g, m, s, 0, <<>>)
    ELSE IF s.enable_simulation
        THEN Executed(record_trade(g, t), m, [s EXCEPT !.trades_executed = @ + 1], 0, <<>>)
    ELSE live_trade(g, m, s, symbol, primary_signal[1], position_size, order_failed, t)

-----------------------------------------------------------------------------
(* Orchestration loops: _main_loop of both strategy systems and             *)
(* AutoTradingEngine._run_loop                                              *)

LoopKinds == SystemKinds \cup {"engine"}

\* running / state / thread of a system before start(); pc is the worker
\* thread's position ("none": no thread yet, "done": the thread has returned);
\* total_loops stops counting at MaxLoops; last_execution is the engine's
\* stats['last_execution']
WorkerInit(state) ==
    [ running |-> FALSE, state |-> state, pc |-> "none",
      total_loops |-> 0, last_execution |-> NoTime ]

\* a threading.Thread(target=...) after start(): its target and where it is
Thread(target, at) == [ target |-> target, pc |-> at ]

\* no thread created yet; the owner is the thread that calls start() and stop()
ThreadsInit == [ owner |-> "idle", spawned |-> <<>> ]

\* self.state as the constructors set it
InitialState(kind) == IF kind = "engine" THEN "STOPPED" ELSE "INITIALIZING"

\* what one _execute_multi_symbol_cycle call leaves behind; raised is the
\* exception that left it ("" for a normal return), placed the number of
\* place_market_order calls of its _execute_trade and symbol the symbol that was
\* handed to _execute_trade ("" when the cycle did not get that far)
Cycled(r, g, m, s, skip_reason, raised, placed, symbol) ==
    [ rm |-> r, gate |-> g, pm |-> m, sys |-> s,
      skip_reason |-> skip_reason, raised |-> raised, placed |-> placed, symbol |-> symbol ]

\* _execute_multi_symbol_cycle of system s; healthy is trading_client.ping(),
\* selected is bool(self.selected_symbols), best is the result of
\* _analyze_all_symbols (<<>> for None), fetched what get_klines does: raise, or
\* hand back the candles
execute_multi_symbol_cycle(r, g, m, s, healthy, selected, best, fetched, position_size, order_failed, t) ==
    LET allowed == is_allowed_to_trade(r, t)
    IN  IF ~healthy THEN Cycled(r, g, m, s, "health_check", "", 0, "")
        ELSE IF ~allowed.ret.ok THEN Cycled(allowed.rm, g, m, s, "risk_manager", "", 0, "")
        ELSE IF ~selected THEN Cycled(allowed.rm, g, m, s, "no_symbols", "", 0, "")
        ELSE IF best = <<>> THEN Cycled(allowed.rm, g, m, s, "", "", 0, "")
        ELSE IF s.kind = "fvg" /\ best[1].signal = <<>>
            THEN Cycled(allowed.rm, g, m, s, "no_primary_signal", "", 0, "")
        ELSE IF fetched.raises THEN Cycled(allowed.rm, g, m, s, "", "Exception", 0, "")
        ELSE LET signal == best[1].signal[1]
                 c == check(g, m, Signal(TRUE, signal.entry_price, signal.stop_loss),
                            fetched.klines, min_stop_loss_distance, t)
                 e == IF s.kind = "fvg"
                        THEN execute_trade_fvg(g, m, s, best[1].symbol, best[1].signal,
                                               position_size, order_failed, t)
                        ELSE execute_trade_fakeout(g, m, s, best[1].symbol, signal,
                                                   position_size, order_failed, t)
             IN  IF c.reason = "ZeroDivisionError"
                     THEN Cycled(allowed.rm, g, m, s, "", c.reason, 0, "")
                 ELSE IF ~c.ok THEN Cycled(allowed.rm, g, m, s, "execution_gate", "", 0, "")
                 ELSE Cycled(allowed.rm, e.gate, e.pm, e.sys, "", "", e.placed, best[1].symbol)

\* what _analyze_all_symbols learns about one symbol: the state analyze_batch
\* reports, the verdict of worth_trading_filter.check and the signals of
\* FakeoutStrategy.analyze (confidences in percent)
SymbolFinding(state, is_worth_trading, signals) ==
    [ state |-> state, is_worth_trading |-> is_worth_trading, signals |-> signals ]

ConfidentSignal(signal_type, entry_price, stop_loss, take_profit, confidence) ==
    [ signal_type |-> signal_type, entry_price |-> entry_price,
      stop_loss |-> stop_loss, take_profit |-> take_profit, confidence |-> confidence ]

\* min_confidence_threshold = 0.6
min_confidence_threshold == 60

\* max(signals, key=lambda s: s.confidence): the first of the largest
RECURSIVE symbol_best(_)
symbol_best(signals) ==
    IF Len(signals) = 1 THEN signals[1]
    ELSE LET rest == symbol_best(Tail(signals))
         IN  IF signals[1].confidence >= rest.confidence THEN signals[1] ELSE rest

\* the selection without the confidence threshold
RECURSIVE best_signal_of_any_confidence(_, _, _)
best_signal_of_any_confidence(symbols, findings, best) ==
    IF symbols = <<>> THEN best
    ELSE LET symbol == Head(symbols)
             f == findings[symbol]
             kept == f.state # "SLEEP" /\ f.is_worth_trading /\ f.signals # <<>>
             better == kept /\ symbol_best(f.signals).confidence > (IF best = <<>> THEN 0 ELSE best[1].signal[1].confidence)
         IN  best_signal_of_any_confidence(Tail(symbols), findings,
                    IF better THEN <<[symbol |-> symbol, signal |-> <<symbol_best(f.signals)>>]>> ELSE best)

\* the two loops of _analyze_all_symbols over the selected symbols: a symbol
\* keeps its signals when its state is not SLEEP and it is worth trading; the
\* best signal is the first with the largest confidence, at least the threshold
RECURSIVE best_signal_of(_, _, _)
best_signal_of(symbols, findings, best) ==
    IF symbols = <<>> THEN best
    ELSE LET symbol == Head(symbols)
             f == findings[symbol]
             kept == f.state # "SLEEP" /\ f.is_worth_trading /\ f.signals # <<>>
             better == /\ kept
                       /\ symbol_best(f.signals).confidence > (IF best = <<>> THEN 0 ELSE best[1].signal[1].confidence)
                       /\ symbol_best(f.signals).confidence >= min_confidence_threshold
         IN  best_signal_of(Tail(symbols), findings,
                    IF better THEN <<[symbol |-> symbol, signal |-> <<symbol_best(f.signals)>>]>> ELSE best)

\* variant: the best signal taken whatever its confidence
analyze_all_symbols_any_confidence(selected_symbols, findings) ==
    best_signal_of_any_confidence(selected_symbols, findings, <<>>)

analyze_all_symbols(selected_symbols, findings) ==
    best_signal_of(selected_symbols, findings, <<>>)

\* results of _analyze_all_symbols: nothing, a symbol with its signal and, for
\* the fvg system, a confluence without primary signal
BestResults(kind) ==
    { <<>>,
      <<[symbol |-> "BTCUSDT", signal |-> <<TradeSignal("BUY", 100, 95, 110)>>]>> }
    \cup IF kind = "fvg" THEN { <<[symbol |-> "BTCUSDT", signal |-> <<>>]>> } ELSE {}

\* get_klines: raising, a decisive latest candle, a flat latest candle
CycleKlines ==
    { [raises |-> TRUE, klines |-> <<>>],
      [raises |-> FALSE, klines |-> <<Kline(100, 110, 100, 108)>>],
      [raises |-> FALSE, klines |-> <<Kline(100, 100, 100, 100)>>] }

-----------------------------------------------------------------------------
(* MultiSymbolFakeoutSystem.update_parameters and ParameterConfig.to_dict   *)

\* the instance attributes of the live components, as hasattr() sees them
RiskManagerAttributes ==
    { "max_drawdown_percent", "max_consecutive_losses", "daily_loss_limit", "metrics",
      "circuit_breaker_state", "circuit_breaker_time", "daily_start_time", "daily_pnl",
      "equity_curve", "initial_balance" }

ExecutionGateAttributes ==
    { "last_trade_time", "min_trade_interval", "max_positions", "current_positions",
      "position_manager" }

MarketStateEngineAttributes ==
    { "data_fetcher", "symbol", "interval", "enable_sleep_filter", "atr_period",
      "volume_ma_period", "atr_sleep_threshold", "atr_active_threshold",
      "volume_active_multiplier", "funding_sleep_threshold",
      "funding_aggressive_threshold", "atr_history", "max_history_length" }

\* ParameterConfig.to_dict(): each section is the __dict__ of its dataclass; the
\* sections update_parameters has a live component for are kept.  Fractions stand
\* for the float defaults.
to_dict(max_consecutive_losses_value, min_trade_interval_minutes, enable_market_sleep_filter) ==
    [ risk_manager |->
        [ max_drawdown_percent |-> 5, max_consecutive_losses |-> max_consecutive_losses_value,
          daily_loss_limit |-> 30, risk_per_trade |-> <<2, 100>>,
          max_position_size |-> <<3, 10>>, position_size_leverage |-> 10 ],
      execution_gate |->
        [ min_trade_interval_minutes |-> min_trade_interval_minutes,
          max_daily_trades |-> 20, min_signal_confidence |-> <<6, 10>>,
          max_spread_percent |-> <<5, 100>> ],
      market_state_engine |->
        [ volatility_window |-> 14, trend_ma_fast |-> 7, trend_ma_slow |-> 25,
          volume_ma_period |-> 20,
          enable_market_sleep_filter |-> enable_market_sleep_filter ] ]

\* values set in the parameter panel before the dictionary is built
IntervalChoices == {5, 10}
LossChoices == {3, 5}

\* dictionaries handed to update_parameters: those to_dict builds and one keyed
\* by the gate's own attribute name
ConfigInputs ==
    { to_dict(l, m, b) : l \in LossChoices, m \in IntervalChoices, b \in BOOLEAN }
    \cup { [execution_gate |-> [max_positions |-> 2]] }

\* for key, value in section.items(): if hasattr(obj, key): setattr(obj, key, value)
\* (attributes the model does not carry have no field to receive the value)
set_attributes(obj, attributes, section) ==
    [ f \in DOMAIN obj |->
        IF f \in DOMAIN section /\ f \in attributes THEN section[f] ELSE obj[f] ]

\* the execution_gate section: the two special cases sit under the same hasattr
update_gate(g, section) ==
    [ f \in DOMAIN g |->
        IF /\ f = "min_trade_interval"
           /\ "min_trade_interval_minutes" \in DOMAIN section
           /\ "min_trade_interval_minutes" \in ExecutionGateAttributes
            THEN section["min_trade_interval_minutes"]
        ELSE IF f \in DOMAIN section /\ f \in ExecutionGateAttributes
            THEN section[f]
        ELSE g[f] ]

\* self.execution_gate.position_manager.max_positions = value
update_manager(m, section) ==
    IF "max_positions" \in DOMAIN section /\ "max_positions" \in ExecutionGateAttributes
        THEN [m EXCEPT !.max_positions = section["max_positions"]]
        ELSE m

\* update_parameters(config_dict): the four components afterwards
update_parameters(r, g, m, e, config_dict) ==
    [ rm |-> IF "risk_manager" \in DOMAIN config_dict
                THEN set_attributes(r, RiskManagerAttributes, config_dict["risk_manager"])
                ELSE r,
      gate |-> IF "execution_gate" \in DOMAIN config_dict
                THEN update_gate(g, config_dict["execution_gate"])
                ELSE g,
      pm |-> IF "execution_gate" \in DOMAIN config_dict
                THEN update_manager(m, config_dict["execution_gate"])
                ELSE m,
      mse |-> IF "market_state_engine" \in DOMAIN config_dict
                THEN set_attributes(e, MarketStateEngineAttributes,
                                    config_dict["market_state_engine"])
                ELSE e ]

-----------------------------------------------------------------------------
(* MultiTimeframeAnalyzer.detect_confluence                                 *)

\* confidences are kept in percent

\* the attributes of a TradingSignal (= FVGSignal) that matter here; the class
\* has signal_type and no attribute named direction
TradingSignalOf(signal_type, confidence, timeframe) ==
    [ signal_type |-> signal_type, confidence |-> confidence, timeframe |-> timeframe ]

TimeframeAnalysis(timeframe, trading_signals, is_valid) ==
    [ timeframe |-> timeframe, trading_signals |-> trading_signals, is_valid |-> is_valid ]

Timeframes == {"5m", "15m", "1h"}

\* fvg_config.timeframe_weights; .get(tf, 1.0) for any other timeframe
timeframe_weight(tf) ==
    IF tf = "5m" THEN 1 ELSE IF tf = "15m" THEN 2 ELSE IF tf = "1h" THEN 3 ELSE 1

\* what one timeframe's analysis can hold: failed, no signal, one signal of
\* either direction, or two opposed signals of equal confidence
AnalysisChoices(tf) ==
    { TimeframeAnalysis(tf, <<>>, FALSE),
      TimeframeAnalysis(tf, <<>>, TRUE),
      TimeframeAnalysis(tf, <<TradingSignalOf("BUY", 80, tf)>>, TRUE),
      TimeframeAnalysis(tf, <<TradingSignalOf("SELL", 90, tf)>>, TRUE),
      TimeframeAnalysis(tf, <<TradingSignalOf("BUY", 20, tf)>>, TRUE),
      TimeframeAnalysis(tf, <<TradingSignalOf("BUY", 50, tf),
                              TradingSignalOf("SELL", 50, tf)>>, TRUE) }

\* timeframe_analyses dictionaries: any subset of the timeframes analysed
AnalysesInputs ==
    UNION { { a \in [T -> UNION {AnalysisChoices(tf) : tf \in T}] :
                \A tf \in T : a[tf].timeframe = tf } : T \in SUBSET Timeframes }

\* the signals of all valid analyses, as (tf, signal) pairs in one sequence
RECURSIVE all_signals_of(_, _)
all_signals_of(analyses, tfs) ==
    IF tfs = {} THEN <<>>
    ELSE LET tf == CHOOSE x \in tfs : TRUE
         IN  [i \in 1..Len(analyses[tf].trading_signals) |->
                    <<tf, analyses[tf].trading_signals[i]>>]
             \o all_signals_of(analyses, tfs \ {tf})

\* [s for tf, s in all_signals if s.direction == d]: the attribute read raises
\* on the first signal without it
has_direction(signal) == "direction" \in DOMAIN signal

\* _calculate_weighted_score(signals, analyses): `for tf, signal in signals`
\* unpacks each element, and the callers pass signal objects, not pairs
calculate_weighted_score(signals) ==
    IF signals = <<>> THEN Ret(TRUE, "", 0, <<>>) ELSE Raise("TypeError")

\* detect_confluence: reason is the confluence type, "None" or the exception
detect_confluence(analyses) ==
    LET valid == { tf \in DOMAIN analyses :
                     analyses[tf].is_valid /\ Len(analyses[tf].trading_signals) > 0 }
        all_signals == all_signals_of(analyses, valid)
        directed(d) == SelectSeq(all_signals, LAMBDA x : x[2]["direction"] = d)
        buy_signals == [i \in 1..Len(directed("BUY")) |-> directed("BUY")[i][2]]
        sell_signals == [i \in 1..Len(directed("SELL")) |-> directed("SELL")[i][2]]
        buy_score == calculate_weighted_score(buy_signals)
        sell_score == calculate_weighted_score(sell_signals)
    IN  IF valid = {} THEN Ret(TRUE, "None", 0, <<>>)
        ELSE IF \E i \in 1..Len(all_signals) : ~has_direction(all_signals[i][2])
            THEN Raise("AttributeError")
        ELSE IF ~buy_score.ok THEN buy_score
        ELSE IF ~sell_score.ok THEN sell_score
        ELSE IF buy_score.val > sell_score.val /\ buy_score.val > 30
            THEN Ret(TRUE, "BUY", buy_score.val, <<>>)
        ELSE IF sell_score.val > buy_score.val /\ sell_score.val > 30
            THEN Ret(TRUE, "SELL", sell_score.val, <<>>)
        ELSE Ret(TRUE, "None", 0, <<>>)

-----------------------------------------------------------------------------
(* FakeoutStrategy *)

swing_period == 3
max_structure_levels == 20
MinKlines == 20            \* analyze returns [] below this many candles
RecentWindow == 10         \* klines[-10:]
StructureValidBars == 50   \* levels older than 50 candles are skipped
CandleMs == 300000         \* one 5-minute candle in open_time units

Candle(open_time, o, h, l, c) ==
    [open_time |-> open_time, open |-> o, high |-> h, low |-> l, close |-> c]

upper_wick(k) == k.high - Max(k.open, k.close)

lower_wick(k) == Min(k.open, k.close) - k.low

StructureLevel(level, type, timestamp) ==
    [level |-> level, type |-> type, timestamp |-> timestamp]

FakeoutSignal(signal_type, entry_price, stop_loss, take_profit, confidence, pattern_type) ==
    [ signal_type |-> signal_type, entry_price |-> entry_price,
      stop_loss |-> stop_loss, take_profit |-> take_profit,
      confidence |-> confidence, pattern_type |-> pattern_type,
      structure_level |-> entry_price ]

\* what the DataFetcher answers during one analyze(): get_atr, get_latest_price
\* and whether the latest volume exceeds 1.2 x its moving average
FetcherAnswers(atr, current_price, volume_surge) ==
    [atr |-> atr, current_price |-> current_price, volume_surge |-> volume_surge]

LastN(seq, n) == IF Len(seq) <= n THEN seq ELSE SubSeq(seq, Len(seq) - n + 1, Len(seq))

is_swing_high(klines, i) ==
    \A j \in (i - swing_period)..(i + swing_period) :
        j # i => klines[j].high < klines[i].high

is_swing_low(klines, i) ==
    \A j \in (i - swing_period)..(i + swing_period) :
        j # i => klines[j].low > klines[i].low

\* the levels found from candle i on (1-based), in the order they are appended
RECURSIVE new_levels_from(_, _)
new_levels_from(klines, i) ==
    IF i > Len(klines) - swing_period THEN <<>>
    ELSE (IF is_swing_high(klines, i)
            THEN <<StructureLevel(klines[i].high, "SWING_HIGH", klines[i].open_time)>>
            ELSE <<>>)
         \o (IF is_swing_low(klines, i)
            THEN <<StructureLevel(klines[i].low, "SWING_LOW", klines[i].open_time)>>
            ELSE <<>>)
         \o new_levels_from(klines, i + 1)

identify_structure_levels(klines) ==
    LastN(new_levels_from(klines, swing_period + 1), max_structure_levels)

\* confidence in percent
calculate_confidence(first_candle, second_candle, is_bullish, f) ==
    LET size == IF 2 * body_size(second_candle) > body_size(first_candle) THEN 10 ELSE 0
        volume == IF f.volume_surge THEN 15 ELSE 0
        wick == IF is_bullish
                  THEN (IF lower_wick(second_candle) > body_size(second_candle) THEN 15 ELSE 0)
                  ELSE (IF upper_wick(second_candle) > body_size(second_candle) THEN 15 ELSE 0)
        atr_ok == /\ f.current_price > 0
                  /\ 1000 * f.atr >= 5 * f.current_price
                  /\ 1000 * f.atr <= 20 * f.current_price
    IN  Min(95, 50 + size + volume + wick + (IF atr_ok THEN 10 ELSE 0))

create_bullish_signal(breakout_candle, rejection_candle, structure, f) ==
    FakeoutSignal("BUY", structure.level, structure.level - f.atr * 2,
                  structure.level + f.atr * 4,
                  calculate_confidence(breakout_candle, rejection_candle, TRUE, f),
                  "SWING_HIGH")

create_bearish_signal(breakdown_candle, rejection_candle, structure, f) ==
    FakeoutSignal("SELL", structure.level, structure.level + f.atr * 2,
                  structure.level - f.atr * 4,
                  calculate_confidence(breakdown_candle, rejection_candle, FALSE, f),
                  "SWING_LOW")

\* strength > 0.001 of the level
Exceeds(distance, level) == 1000 * distance > level

\* the result is a list holding the signal, or the empty list for None
check_bullish_fakeout(klines, structure, f) ==
    LET breakout == { i \in 1..Len(klines) : klines[i].close > structure.level } IN
    IF Len(klines) < 3 \/ breakout = {} THEN <<>>
    ELSE
      LET b == CHOOSE i \in breakout :
                   \A j \in breakout : klines[j].open_time <= klines[i].open_time
          rejected == { j \in (b + 1)..Len(klines) :
                          /\ klines[j].close < structure.level
                          /\ Exceeds(klines[b].high - structure.level, structure.level)
                          /\ Exceeds(structure.level - klines[j].low, structure.level) }
      IN  IF b >= Len(klines) \/ rejected = {} THEN <<>>
          ELSE LET j == CHOOSE x \in rejected : \A y \in rejected : x <= y
               IN  <<create_bullish_signal(klines[b], klines[j], structure, f)>>

\* the breakdown candle is min(breakdown_candles, key=open_time): the earliest
check_bearish_fakeout(klines, structure, f) ==
    LET breakdown == { i \in 1..Len(klines) : klines[i].close < structure.level } IN
    IF Len(klines) < 3 \/ breakdown = {} THEN <<>>
    ELSE
      LET b == CHOOSE i \in breakdown :
                   \A j \in breakdown : klines[j].open_time >= klines[i].open_time
          rejected == { j \in (b + 1)..Len(klines) :
                          /\ klines[j].close > structure.level
                          /\ Exceeds(structure.level - klines[b].low, structure.level)
                          /\ Exceeds(klines[j].high - structure.level, structure.level) }
      IN  IF b >= Len(klines) \/ rejected = {} THEN <<>>
          ELSE LET j == CHOOSE x \in rejected : \A y \in rejected : x <= y
               IN  <<create_bearish_signal(klines[b], klines[j], structure, f)>>

\* a level counts when it is at most 50 candles older than the latest candle
is_recent(klines, structure) ==
    klines[Len(klines)].open_time - structure.timestamp <= StructureValidBars * CandleMs

RECURSIVE signals_of_levels(_, _, _)
signals_of_levels(klines, levels, f) ==
    IF levels = <<>> THEN <<>>
    ELSE (IF ~is_recent(klines, levels[1]) THEN <<>>
          ELSE IF levels[1].type = "SWING_HIGH"
            THEN check_bullish_fakeout(LastN(klines, RecentWindow), levels[1], f)
            ELSE check_bearish_fakeout(LastN(klines, RecentWindow), levels[1], f))
         \o signals_of_levels(klines, Tail(levels), f)

detect_fakeout(klines, structure_levels, f) ==
    IF Len(klines) < RecentWindow THEN <<>>
    ELSE signals_of_levels(klines, structure_levels, f)

fakeout_analyze(klines, f) ==
    IF Len(klines) < MinKlines THEN <<>>
    ELSE detect_fakeout(klines, identify_structure_levels(klines), f)

\* candle lists: a quiet run of candles holding one swing high at 2010 and one
\* swing low at 1980, followed by MaxRecent candles chosen freely
QuietCandle(i) == Candle(i * CandleMs, 1995, 2000, 1990, 1995)

HistoryCandle(i) ==
    IF i = 6 THEN Candle(i * CandleMs, 1995, 2010, 1990, 1995)
    ELSE IF i = 11 THEN Candle(i * CandleMs, 1995, 2000, 1980, 1995)
    ELSE QuietCandle(i)

\* (open, high, low, close) of the freely chosen candles: quiet, closes above
\* 2010 by more and by less than 0.1%, a fall back below 2010, closes below 1980
\* by more and by less than 0.1%, a rise back above 1980
RecentShapes ==
    { <<1995, 2000, 1990, 1995>>,
      <<2012, 2016, 2011, 2015>>,
      <<2000, 2011, 2000, 2011>>,
      <<2010, 2013, 2005, 2008>>,
      <<1995, 1995, 1974, 1975>>,
      <<1990, 1990, 1979, 1979>>,
      <<1978, 1985, 1977, 1983>> }

HistoryLengths == {17, 57}
AtrChoices == {10, 20}

KlineLists ==
    { [i \in 1..(n + MaxRecent) |->
          IF i <= n THEN HistoryCandle(i)
          ELSE Candle(i * CandleMs, r[i - n][1], r[i - n][2], r[i - n][3], r[i - n][4])] :
        n \in HistoryLengths, r \in [1..MaxRecent -> RecentShapes] }

-----------------------------------------------------------------------------
(* FVGStrategy *)

\* times are kept in minutes (the code's are milliseconds), prices of signals
\* in units of 1/PriceScale

max_fvg_age_minutes == 60
CandleMinutes == 5
EpochMinutes == 28000000   \* candle times are timestamps of the 2020s
PriceScale == 20000

FvgCandle(i, o, h, l, c) ==
    [ open_time |-> EpochMinutes + i * CandleMinutes,
      close_time |-> EpochMinutes + (i + 1) * CandleMinutes,
      open |-> o, high |-> h, low |-> l, close |-> c ]

FVG(gap_type, high_bound, low_bound, formation_time, kline_index, is_filled) ==
    [ gap_type |-> gap_type, high_bound |-> high_bound, low_bound |-> low_bound,
      formation_time |-> formation_time, kline_index |-> kline_index,
      is_filled |-> is_filled ]

\* size_percent >= min_fvg_size_percent (0.0005), size_percent being
\* (high - low) / ((high + low) / 2)
size_suffices(high_bound, low_bound) ==
    4000 * (high_bound - low_bound) >= high_bound + low_bound

\* FVG.is_active; current_time is the fraction <<n, d>> of minutes
is_active(fvg, current_time, max_age_minutes) ==
    /\ ~fvg.is_filled
    /\ RatLt(RatAdd(current_time, <<0 - fvg.formation_time, 1>>), <<max_age_minutes, 1>>)

\* variant: only the current price is compared with the gap
check_fvg_fill_price_only(fvg, current_price, klines_after) ==
    IF (IF fvg.gap_type = "BULLISH" THEN current_price <= fvg.low_bound
        ELSE current_price >= fvg.high_bound)
        THEN [fvg EXCEPT !.is_filled = TRUE] ELSE fvg

\* _check_fvg_fill: the current price, then every candle of klines_after
check_fvg_fill(fvg, current_price, klines_after) ==
    LET by_price == IF fvg.gap_type = "BULLISH" THEN current_price <= fvg.low_bound
                    ELSE current_price >= fvg.high_bound
        by_candle == \E n \in 1..Len(klines_after) :
                        IF fvg.gap_type = "BULLISH"
                            THEN klines_after[n].low <= fvg.low_bound
                            ELSE klines_after[n].high >= fvg.high_bound
    IN  IF by_price \/ by_candle THEN [fvg EXCEPT !.is_filled = TRUE] ELSE fvg

\* the gaps found at candle i (1-based; kline_index is i - 1), as created
gaps_at(klines, i) ==
    (IF /\ klines[i + 1].high > klines[i - 1].low
        /\ size_suffices(klines[i + 1].high, klines[i - 1].low)
       THEN <<FVG("BULLISH", klines[i + 1].high, klines[i - 1].low,
                  klines[i].close_time, i - 1, FALSE)>>
       ELSE <<>>)
    \o (IF /\ klines[i + 1].low < klines[i - 1].high
           /\ size_suffices(klines[i - 1].high, klines[i + 1].low)
          THEN <<FVG("BEARISH", klines[i - 1].high, klines[i + 1].low,
                     klines[i].close_time, i - 1, FALSE)>>
          ELSE <<>>)

\* the gaps of candles i.. in the order of the scan
RECURSIVE gaps_from(_, _)
gaps_from(klines, i) ==
    IF i > Len(klines) - 1 THEN <<>>
    ELSE gaps_at(klines, i) \o gaps_from(klines, i + 1)

\* list.sort(key=formation_time, reverse=True) is stable: the gaps of a later
\* candle come first, the gaps of one candle keep their order
RECURSIVE newest_first(_, _)
newest_first(klines, i) ==
    IF i < 2 THEN <<>>
    ELSE gaps_at(klines, i) \o newest_first(klines, i - 1)

identify_fvgs(klines) ==
    IF Len(klines) < 3 THEN <<>>
    ELSE LET checked ==
                 [n \in 1..Len(newest_first(klines, Len(klines) - 1)) |->
                    LET fvg == newest_first(klines, Len(klines) - 1)[n]
                    IN  check_fvg_fill(fvg, klines[Len(klines)].close,
                            SubSeq(klines, fvg.kline_index + 1, Len(klines)))]
         IN  SelectSeq(checked, LAMBDA fvg : ~fvg.is_filled)

\* the age is taken against int(current_price * 1000) milliseconds
validate_fvg(fvg, current_price) ==
    /\ ~fvg.is_filled
    /\ is_active(fvg, <<current_price, 60>>, max_fvg_age_minutes)
    /\ size_suffices(fvg.high_bound, fvg.low_bound)

\* FVGSignal without confidence: entry at the bound with the tolerance of
\* 0.0002, stop 1.5 ATR beyond it, target 2.5 risks from the entry
FVGSignalOf(signal_type, entry_price, stop_loss, take_profit, fvg) ==
    [ signal_type |-> signal_type, entry_price |-> entry_price,
      stop_loss |-> stop_loss, take_profit |-> take_profit, fvg |-> fvg ]

generate_bullish_fvg_signal(fvg, atr) ==
    FVGSignalOf("BUY", 20004 * fvg.low_bound,
                PriceScale * fvg.low_bound - 30000 * atr,
                20014 * fvg.low_bound + 75000 * atr, fvg)

generate_bearish_fvg_signal(fvg, atr) ==
    FVGSignalOf("SELL", 19996 * fvg.high_bound,
                PriceScale * fvg.high_bound + 30000 * atr,
                19986 * fvg.high_bound - 75000 * atr, fvg)

\* the signals in the order of the gaps; the final sort by confidence is left
\* out, the result is read as a collection
generate_fvg_signals(klines, current_price, atr) ==
    IF current_price = 0 \/ atr = 0 THEN <<>>
    ELSE LET valid == SelectSeq(identify_fvgs(klines),
                                LAMBDA fvg : validate_fvg(fvg, current_price))
         IN  [n \in 1..Len(valid) |->
                IF valid[n].gap_type = "BULLISH"
                    THEN generate_bullish_fvg_signal(valid[n], atr)
                    ELSE generate_bearish_fvg_signal(valid[n], atr)]

\* candle lists: a rising, falling or flat run of candles, optionally with one
\* candle that spans the whole range
Trends == {"rising", "falling", "flat"}

TrendCandle(trend, i) ==
    LET d == IF trend = "rising" THEN 5 * i ELSE IF trend = "falling" THEN 0 - 5 * i ELSE 0
    IN  FvgCandle(i, 1992 + d, 2000 + d, 1990 + d, 1998 + d)

WideCandle(i) == FvgCandle(i, 2000, 2200, 1800, 2000)

KlineLengths == {2, 4, MaxKlines}
WidePositions == {0, 3, 9}     \* 0: no such candle

FvgKlineLists ==
    { [i \in 1..n |-> IF i = w THEN WideCandle(i) ELSE TrendCandle(trend, i)] :
        n \in KlineLengths, trend \in Trends, w \in WidePositions }

-----------------------------------------------------------------------------
(* LiquidityZone and LiquidityAnalyzer *)

\* strengths are fractions <<n, d>>

LiquidityZone(zone_type, level, strength, formation_time) ==
    [ zone_type |-> zone_type, level |-> level, strength |-> strength,
      formation_time |-> formation_time, touched_count |-> 0 ]

\* min(1.0, self.strength * factor), factor being the fraction <<n, d>>
update_strength(zone, factor) ==
    [zone EXCEPT !.strength = RatMin(<<1, 1>>, <<zone.strength[1] * factor[1],
                                                zone.strength[2] * factor[2]>>)]

increment_touch(zone) ==
    update_strength([zone EXCEPT !.touched_count = zone.touched_count + 1], <<4, 5>>)

SwingPoint(point_type, price, time, index) ==
    [point_type |-> point_type, price |-> price, time |-> time, index |-> index]

\* candle i (1-based; index is i - 1) against the two candles on either side
swing_highs_from(klines) ==
    LET at == { i \in 3..(Len(klines) - 2) :
                  \A j \in {i - 2, i - 1, i + 1, i + 2} : klines[i].high > klines[j].high }
        points == [i \in 1..Len(klines) |->
                     SwingPoint("HIGH", klines[i].high, klines[i].close_time, i - 1)]
    IN  SelectSeq(points, LAMBDA x : x.index + 1 \in at)

swing_lows_from(klines) ==
    LET at == { i \in 3..(Len(klines) - 2) :
                  \A j \in {i - 2, i - 1, i + 1, i + 2} : klines[i].low < klines[j].low }
        points == [i \in 1..Len(klines) |->
                     SwingPoint("LOW", klines[i].low, klines[i].close_time, i - 1)]
    IN  SelectSeq(points, LAMBDA x : x.index + 1 \in at)

identify_swing_points(klines) ==
    IF Len(klines) < 5 THEN <<<<>>, <<>>>>
    ELSE <<swing_highs_from(klines), swing_lows_from(klines)>>

\* 1.0 - min(1.0, distance / (current_price * 0.01))
strength_at(distance, current_price) ==
    <<current_price - Min(current_price, 100 * distance), current_price>>

liquidity_threshold == <<1, 1000>>

\* abs(zone.level - price) < current_price * 0.001
is_similar(zone, price, current_price) == 1000 * Abs(zone.level - price) < current_price

\* the zone list after one swing point: merged into the first similar zone
\* (the greater strength is kept, one touch counted) or appended as a new zone
with_swing(zones, zone_type, swing, strength, current_price) ==
    LET similar == { n \in 1..Len(zones) : is_similar(zones[n], swing.price, current_price) }
    IN  IF similar = {}
            THEN Append(zones, LiquidityZone(zone_type, swing.price, strength, swing.time))
        ELSE LET n == CHOOSE x \in similar : \A y \in similar : x <= y
             IN  [zones EXCEPT ![n] = [ @ EXCEPT
                     !.strength = RatMax(zones[n].strength, strength),
                     !.touched_count = @ + 1 ]]

\* the loop over the swing points from the i-th on; the last two are skipped
RECURSIVE zones_from(_, _, _, _, _)
zones_from(zones, zone_type, swings, i, current_price) ==
    IF i > Len(swings) THEN zones
    ELSE LET swing == swings[i]
             distance == IF zone_type = "BUYSIDE" THEN current_price - swing.price
                         ELSE swing.price - current_price
             strength == strength_at(distance, current_price)
         IN  IF \/ i - 1 >= Len(swings) - 2
                \/ distance <= 0
                \/ RatLt(strength, liquidity_threshold)
                 THEN zones_from(zones, zone_type, swings, i + 1, current_price)
             ELSE zones_from(with_swing(zones, zone_type, swing, strength, current_price),
                             zone_type, swings, i + 1, current_price)

\* list.sort(key=strength, reverse=True), stable
RECURSIVE by_strength(_)
by_strength(zones) ==
    IF zones = <<>> THEN <<>>
    ELSE LET rest == by_strength(SubSeq(zones, 1, Len(zones) - 1))
             z == zones[Len(zones)]
             ahead == SelectSeq(rest, LAMBDA x : ~RatLt(x.strength, z.strength))
             behind == SelectSeq(rest, LAMBDA x : RatLt(x.strength, z.strength))
         IN  ahead \o <<z>> \o behind

identify_buyside_liquidity(klines, current_price) ==
    by_strength(zones_from(<<>>, "BUYSIDE", identify_swing_points(klines)[2], 1, current_price))

identify_sellside_liquidity(klines, current_price) ==
    by_strength(zones_from(<<>>, "SELLSIDE", identify_swing_points(klines)[1], 1, current_price))

\* candle lists: quiet candles with every third candle a swing candle; the
\* swing candles reach down to 1990, 1991 or 1980 or up to 2010, 2009 as chosen
SwingShapes ==
    { <<1995, 2005, 1990, 2000>>, <<1995, 2005, 1991, 2000>>, <<1995, 2005, 1980, 2000>>,
      <<2000, 2010, 1995, 2005>>, <<2000, 2009, 1995, 2005>>, <<2000, 2012, 1988, 2000>> }

SwingKlineLists ==
    { [i \in 1..(3 * MaxSwings + 2) |->
          IF i % 3 = 0 THEN FvgCandle(i, c[i \div 3][1], c[i \div 3][2], c[i \div 3][3],
                                      c[i \div 3][4])
          ELSE FvgCandle(i, 2000, 2005, 1995, 2000)] :
        c \in [1..MaxSwings -> SwingShapes] }

-----------------------------------------------------------------------------
(* MarketData and DataFetcher *)

cache_ttl_seconds == 10

\* the seconds of datetime.now() as the DataFetcher reads it
MaxSeconds == 15
TickSeconds == 5

\* candles the exchange closes during a run
MaxCandles == 3

Intervals == {"1m", "5m"}
FetcherSymbols == {"ETHUSDT"}
Limits == {1, 3}

\* the exchange starts without a closed candle
ExchangeInit == [seconds |-> 0, closed |-> 0, orders |-> <<>>]

\* one row of /fapi/v1/klines: candle i opened at i and closed at 100 + i
KlineRow(i) == [open_time |-> i, close |-> 100 + i]

\* the answer of the endpoint: the `limit` most recent rows, oldest first
make_request(x, limit) == LastN([i \in 1 .. x.closed |-> KlineRow(i)], limit)

\* MarketData.__init__ reads the name close_price, which no scope binds: the
\* parameter is called close
MarketData_init(symbol, timeframe, row) == Raise("NameError")

DataFetcherInit == [cache |-> [k \in {} |-> <<>>], last_update_time |-> [k \in {} |-> 0]]

cache_key(symbol, interval) == <<"klines", symbol, interval>>

\* fetch(), run by _retry_request: every attempt sees the same exchange, so
\* the third attempt raises what the first one raised
fetch(x, answer, symbol, interval, limit) ==
    IF answer = "error" THEN Raise("Exception")
    ELSE LET result == make_request(x, limit)
             built == [i \in 1 .. Len(result) |-> MarketData_init(symbol, interval, result[i])]
             failed == { i \in 1 .. Len(result) : ~built[i].ok }
         IN  IF failed # {} THEN built[CHOOSE i \in failed : \A j \in failed : i <= j]
             ELSE Ret(TRUE, "", 0, [i \in 1 .. Len(result) |-> built[i].pos])

Store(f, key, value) == [k \in DOMAIN f \cup {key} |-> IF k = key THEN value ELSE f[k]]

get_klines(f, x, answer, symbol, interval, limit) ==
    LET key == cache_key(symbol, interval)
        fresh == /\ key \in DOMAIN f.cache
                 /\ x.seconds - f.last_update_time[key] < cache_ttl_seconds
        klines == fetch(x, answer, symbol, interval, limit)
    IN  IF fresh THEN [f |-> f, r |-> Ret(TRUE, "", 0, f.cache[key])]
        ELSE IF ~klines.ok THEN [f |-> f, r |-> klines]
        ELSE [f |-> [cache |-> Store(f.cache, key, klines.pos),
                     last_update_time |-> Store(f.last_update_time, key, x.seconds)],
              r |-> klines]

get_latest_price(f, x, answer, symbol) ==
    LET got == get_klines(f, x, answer, symbol, "1m", 1)
    IN  IF ~got.r.ok THEN got
        ELSE IF got.r.pos # <<>> THEN [f |-> got.f, r |-> Ret(TRUE, "", got.r.pos[1].close, <<>>)]
        ELSE [f |-> got.f, r |-> Ret(TRUE, "", 0, <<>>)]

-----------------------------------------------------------------------------
(* Operations *)

\* the three trip conditions as section 4.7 of the specification states them
TripCondition(r) ==
    \/ r.max_drawdown >= r.max_drawdown_percent * DrawdownScale
    \/ r.consecutive_losses >= r.max_consecutive_losses
    \/ r.daily_pnl <= 0 - r.daily_loss_limit

PositionObjects == <<pm, lock, pc, targ, held, sys, worker, Peripherals>>

\* time passes
Tick ==
    /\ now < MaxTime
    /\ now' = now + TickMinutes
    /\ op' = "tick"
    /\ ret' = NoRet
    /\ args' = <<>>
    /\ UNCHANGED <<rm, trip_at, gate, mse, out>>
    /\ UNCHANGED PositionObjects

\* called once, when the strategy system is constructed
\* (eth_fakeout_strategy_system.py:91)
SetInitialBalance ==
    /\ rm.equity_curve = <<>>
    /\ \E balance \in InitialBalances :
        /\ rm' = set_initial_balance(rm, balance)
        /\ args' = <<balance>>
    /\ op' = "set_initial_balance"
    /\ ret' = NoRet
    /\ UNCHANGED <<now, trip_at, gate, mse, out>>
    /\ UNCHANGED PositionObjects

UpdatePnl ==
    /\ rm.total_trades < MaxTrades
    /\ \E pnl \in PnlValues :
        /\ rm' = update_pnl(rm, pnl, now)
        /\ args' = <<pnl>>
    /\ trip_at' = IF TripCondition(rm') THEN now ELSE trip_at
    /\ op' = "update_pnl"
    /\ ret' = NoRet
    /\ UNCHANGED <<now, gate, mse, out>>
    /\ UNCHANGED PositionObjects

ResetCircuitBreaker ==
    /\ rm' = reset_circuit_breaker(rm, now)
    /\ trip_at' = NoTime
    /\ op' = "reset_circuit_breaker"
    /\ ret' = NoRet
    /\ args' = <<>>
    /\ UNCHANGED <<now, gate, mse, out>>
    /\ UNCHANGED PositionObjects

IsAllowedToTrade ==
    /\ rm' = is_allowed_to_trade(rm, now).rm
    /\ ret' = is_allowed_to_trade(rm, now).ret
    /\ op' = "is_allowed_to_trade"
    /\ args' = <<>>
    /\ UNCHANGED <<now, trip_at, gate, mse, out>>
    /\ UNCHANGED PositionObjects

\* variant: a gate that stamps the trade time itself when it lets a signal through
GateCheckRecording ==
    /\ lock = 0
    /\ \E signal \in SignalInputs, klines \in KlineInputs :
        /\ ret' = check(gate, pm, signal, klines, min_stop_loss_distance, now)
        /\ args' = <<signal, klines>>
        /\ gate' = IF ret'.ok THEN record_trade(gate, now) ELSE gate
    /\ op' = "check"
    /\ UNCHANGED <<now, rm, trip_at, mse, out>>
    /\ UNCHANGED PositionObjects

\* check reads the gate and, through is_at_capacity, the locked PositionManager
GateCheck ==
    /\ lock = 0
    /\ \E signal \in SignalInputs, klines \in KlineInputs :
        /\ ret' = check(gate, pm, signal, klines, min_stop_loss_distance, now)
        /\ args' = <<signal, klines>>
    /\ op' = "check"
    /\ UNCHANGED <<now, rm, trip_at, gate, mse, out>>
    /\ UNCHANGED PositionObjects

RecordTrade ==
    /\ gate' = record_trade(gate, now)
    /\ op' = "record_trade"
    /\ ret' = NoRet
    /\ args' = <<>>
    /\ UNCHANGED <<now, rm, trip_at, mse, out>>
    /\ UNCHANGED PositionObjects

SetSleepFilter ==
    /\ \E enable \in BOOLEAN :
        /\ mse' = [mse EXCEPT !.enable_sleep_filter = enable]
        /\ args' = <<enable>>
    /\ op' = "set_sleep_filter"
    /\ ret' = NoRet
    /\ UNCHANGED <<now, rm, trip_at, gate, out>>
    /\ UNCHANGED PositionObjects

\* the test's direct calls of _determine_state
DetermineState ==
    /\ \E atr_ratio \in {<<3, 1000>>, <<1, 100>>, <<25, 1000>>},
          volume_ratio \in {<<1, 1>>, <<4, 1>>},
          funding_rate \in {<<>>, << <<0, 1>> >>, << <<0 - 2, 10000>> >>},
          atr_avg_ratio \in {<<1, 1>>, <<1, 2>>} :
        LET st == _determine_state(mse, atr_ratio, volume_ratio, funding_rate, atr_avg_ratio)
        IN  /\ out' = [s \in {mse.symbol} |->
                         MarketStateInfo(st.state, 0, atr_avg_ratio, volume_ratio,
                                         funding_rate, <<0, 1>>, st.reasons)]
            /\ args' = <<atr_ratio, volume_ratio, funding_rate, atr_avg_ratio>>
    /\ op' = "_determine_state"
    /\ ret' = NoRet
    /\ UNCHANGED <<now, rm, trip_at, gate, mse>>
    /\ UNCHANGED PositionObjects

Analyze ==
    /\ Len(mse.atr_history) < MaxHistory
    /\ \E d \in MarketDataInputs \ {FetchFailed} :
        /\ mse' = analyze(mse, d).engine
        /\ out' = [s \in {mse.symbol} |-> analyze(mse, d).info]
        /\ args' = <<d>>
    /\ op' = "analyze"
    /\ ret' = NoRet
    /\ UNCHANGED <<now, rm, trip_at, gate>>
    /\ UNCHANGED PositionObjects

\* a fetch error leaves analyze() before it has touched the engine
AnalyzeRaises ==
    /\ out' = [s \in {} |-> 0]
    /\ args' = <<FetchFailed>>
    /\ op' = "analyze"
    /\ ret' = Raise("Exception")
    /\ UNCHANGED <<now, rm, trip_at, gate, mse>>
    /\ UNCHANGED PositionObjects

BatchSymbols == {"BTCUSDT", "ETHUSDT"}

AnalyzeBatch ==
    /\ \E symbols \in SUBSET BatchSymbols :
       \E data \in [symbols -> MarketDataInputs] :
        /\ out' = analyze_batch(mse, symbols, data)
        /\ args' = <<symbols, data>>
    /\ op' = "analyze_batch"
    /\ ret' = NoRet
    /\ UNCHANGED <<now, rm, trip_at, gate, mse>>
    /\ UNCHANGED PositionObjects

\* config.system.enable_simulation switched from the control panel
SetSimulation ==
    /\ \E b \in BOOLEAN :
        /\ sys' = [sys EXCEPT !.enable_simulation = b]
        /\ args' = <<b>>
    /\ op' = "set_simulation"
    /\ ret' = NoRet
    /\ UNCHANGED <<now, rm, trip_at, gate, mse, out, pm, lock, pc, targ, held, worker, Peripherals>>

\* one _execute_trade call of the orchestration thread; add_position inside it
\* needs the manager's lock
ExecuteTrade(e, a) ==
    /\ lock = 0
    /\ sys.trades_executed < MaxExecuted
    /\ gate' = e.gate
    /\ pm' = e.pm
    /\ sys' = e.sys
    /\ op' = "_execute_trade"
    /\ ret' = Ret(TRUE, "", e.placed, e.created)
    /\ args' = a
    /\ UNCHANGED <<now, rm, trip_at, mse, out, lock, pc, targ, held, worker, Peripherals>>

ExecuteTradeFakeout ==
    /\ sys.kind = "fakeout"
    /\ \E symbol \in TradeSymbols, signal \in TradeSignalInputs,
          position_size \in PositionSizes, order_failed \in BOOLEAN :
        ExecuteTrade(execute_trade_fakeout(gate, pm, sys, symbol, signal,
                                           position_size, order_failed, now),
                     <<symbol, <<signal>> >>)

ExecuteTradeFVG ==
    /\ sys.kind = "fvg"
    /\ \E symbol \in TradeSymbols, primary_signal \in {<<>>} \cup {<<g>> : g \in TradeSignalInputs},
          position_size \in PositionSizes, order_failed \in BOOLEAN :
        ExecuteTrade(execute_trade_fvg(gate, pm, sys, symbol, primary_signal,
                                       position_size, order_failed, now),
                     <<symbol, primary_signal>>)

\* the objects a loop step leaves alone unless it runs a cycle
LoopFrame == <<now, trip_at, mse, out, lock, pc, targ, held, Peripherals>>

\* start(): refused while RUNNING; taken here once no earlier worker is alive
Start ==
    /\ worker.state # "RUNNING"
    /\ worker.pc \in {"none", "done"}
    /\ worker' = [worker EXCEPT !.running = TRUE, !.state = "RUNNING", !.pc = "test"]
    /\ op' = "start"
    /\ ret' = NoRet
    /\ args' = <<>>
    /\ UNCHANGED <<rm, gate, pm, sys>>
    /\ UNCHANGED LoopFrame

Stop ==
    /\ worker.running
    /\ worker' = [worker EXCEPT !.running = FALSE, !.state = "STOPPED"]
    /\ op' = "stop"
    /\ ret' = NoRet
    /\ args' = <<>>
    /\ UNCHANGED <<rm, gate, pm, sys>>
    /\ UNCHANGED LoopFrame

Pause ==
    /\ worker.state = "RUNNING"
    /\ worker' = [worker EXCEPT !.state = "PAUSED"]
    /\ op' = "pause"
    /\ ret' = NoRet
    /\ args' = <<>>
    /\ UNCHANGED <<rm, gate, pm, sys>>
    /\ UNCHANGED LoopFrame

Resume ==
    /\ worker.state = "PAUSED"
    /\ worker' = [worker EXCEPT !.state = "RUNNING"]
    /\ op' = "resume"
    /\ ret' = NoRet
    /\ args' = <<>>
    /\ UNCHANGED <<rm, gate, pm, sys>>
    /\ UNCHANGED LoopFrame

\* `while self.running:`; the worker returns when the flag is cleared
LoopTest ==
    /\ worker.pc = "test"
    /\ worker' = [worker EXCEPT !.pc = IF worker.running THEN "body" ELSE "done"]
    /\ op' = "while"
    /\ ret' = NoRet
    /\ args' = <<>>
    /\ UNCHANGED <<rm, gate, pm, sys>>
    /\ UNCHANGED LoopFrame

\* _main_loop, paused: time.sleep(5); continue
MainLoopPaused ==
    /\ sys.kind \in SystemKinds
    /\ worker.pc = "body"
    /\ worker.state = "PAUSED"
    /\ worker' = [worker EXCEPT !.pc = "test"]
    /\ op' = "paused"
    /\ ret' = NoRet
    /\ args' = <<>>
    /\ UNCHANGED <<rm, gate, pm, sys>>
    /\ UNCHANGED LoopFrame

\* _main_loop, one iteration: the cycle, then the sleep or the handler
MainLoopCycle ==
    /\ sys.kind \in SystemKinds
    /\ worker.pc = "body"
    /\ worker.state # "PAUSED"
    /\ lock = 0
    /\ \E healthy \in BOOLEAN, selected \in BOOLEAN, best \in BestResults(sys.kind),
          fetched \in CycleKlines, position_size \in PositionSizes,
          order_failed \in BOOLEAN :
        LET c == execute_multi_symbol_cycle(rm, gate, pm, sys, healthy, selected, best,
                                            fetched, position_size, order_failed, now)
        IN  /\ c.sys.trades_executed <= MaxExecuted
            /\ rm' = c.rm
            /\ gate' = c.gate
            /\ pm' = c.pm
            /\ sys' = c.sys
            /\ ret' = Ret(c.raised = "", IF c.raised = "" THEN c.skip_reason ELSE c.raised,
                          0, <<>>)
            /\ worker' = [worker EXCEPT
                            !.pc = IF c.raised = "" THEN "test" ELSE "handler",
                            !.total_loops = IF @ < MaxLoops THEN @ + 1 ELSE @]
    /\ op' = "cycle"
    /\ args' = <<>>
    /\ UNCHANGED LoopFrame

\* _run_loop, one iteration: _execute_cycle only in state RUNNING.  The cycle
\* stamps last_execution, or swallows its own exception, or lets one out (its
\* own handler's log call raising)
RunLoopCycle ==
    /\ sys.kind = "engine"
    /\ worker.pc = "body"
    /\ worker.state = "RUNNING"
    /\ \E outcome \in {"done", "swallowed", "raised"} :
        /\ worker' = [worker EXCEPT
                        !.pc = IF outcome = "raised" THEN "handler" ELSE "test",
                        !.last_execution = IF outcome = "done" THEN now ELSE @]
        /\ ret' = Ret(outcome # "raised", outcome, 0, <<>>)
    /\ op' = "cycle"
    /\ args' = <<>>
    /\ UNCHANGED <<rm, gate, pm, sys>>
    /\ UNCHANGED LoopFrame

\* _run_loop, one iteration in any other state: only time.sleep(5)
RunLoopIdle ==
    /\ sys.kind = "engine"
    /\ worker.pc = "body"
    /\ worker.state # "RUNNING"
    /\ worker' = [worker EXCEPT !.pc = "test"]
    /\ op' = "idle"
    /\ ret' = NoRet
    /\ args' = <<>>
    /\ UNCHANGED <<rm, gate, pm, sys>>
    /\ UNCHANGED LoopFrame

\* except Exception: self.state = ERROR; log; on_error; time.sleep(backoff)
loop_handler(w) == [w EXCEPT !.state = "ERROR", !.pc = "test"]

LoopHandler ==
    /\ worker.pc = "handler"
    /\ worker' = loop_handler(worker)
    /\ op' = "handler"
    /\ ret' = NoRet
    /\ args' = <<>>
    /\ UNCHANGED <<rm, gate, pm, sys>>
    /\ UNCHANGED LoopFrame

UpdateParameters ==
    /\ \E config_dict \in ConfigInputs :
        LET u == update_parameters(rm, gate, pm, mse, config_dict)
        IN  /\ rm' = u.rm
            /\ gate' = u.gate
            /\ pm' = u.pm
            /\ mse' = u.mse
            /\ args' = <<config_dict>>
    /\ op' = "update_parameters"
    /\ ret' = NoRet
    /\ UNCHANGED <<now, trip_at, out, lock, pc, targ, held, sys, worker, Peripherals>>

\* the objects a call of a pure analysis function leaves alone
AnalysisFrame ==
    <<now, rm, trip_at, gate, pm, lock, pc, targ, held, mse, out, sys, worker, Peripherals>>

DetectConfluence ==
    /\ \E analyses \in AnalysesInputs :
        /\ ret' = detect_confluence(analyses)
        /\ args' = <<analyses>>
    /\ op' = "detect_confluence"
    /\ UNCHANGED AnalysisFrame

\* analyze() on the candles and answers held in args
FakeoutAnalyze ==
    /\ op = "input"
    /\ ret' = Ret(TRUE, "", fakeout_analyze(args[1], args[2]), <<>>)
    /\ op' = "fakeout_analyze"
    /\ UNCHANGED <<args, AnalysisFrame>>

\* generate_fvg_signals() on the candles, price and ATR held in args
GenerateFvgSignals ==
    /\ op = "input"
    /\ ret' = Ret(TRUE, "", generate_fvg_signals(args[1], args[2], args[3]), <<>>)
    /\ op' = "generate_fvg_signals"
    /\ UNCHANGED <<args, AnalysisFrame>>

IdentifyFvgs ==
    /\ op = "input"
    /\ ret' = Ret(TRUE, "", identify_fvgs(args[1]), <<>>)
    /\ op' = "identify_fvgs"
    /\ UNCHANGED <<args, AnalysisFrame>>

\* _check_fvg_fill() on one of the gaps of the candles, new or already checked;
\* the gap after the call is in ret, the gap before it is added to args
CheckFvgFill ==
    /\ op \in {"input", "check_fvg_fill"}
    /\ Len(args[1]) >= 3
    /\ \E fvg \in IF op = "input"
                    THEN { gaps_from(args[1], 2)[n] : n \in 1..Len(gaps_from(args[1], 2)) }
                    ELSE {ret.val} :
        /\ ret' = Ret(TRUE, "", check_fvg_fill(fvg, args[2],
                        SubSeq(args[1], fvg.kline_index + 1, Len(args[1]))), <<>>)
        /\ args' = <<args[1], args[2], args[3], fvg>>
    /\ op' = "check_fvg_fill"
    /\ UNCHANGED AnalysisFrame

\* identify_buyside_liquidity() on the candles and price held in args
IdentifyBuysideLiquidity ==
    /\ op = "input"
    /\ ret' = Ret(TRUE, "", identify_buyside_liquidity(args[1], args[2]), <<>>)
    /\ op' = "identify_buyside_liquidity"
    /\ UNCHANGED <<args, AnalysisFrame>>

IdentifySellsideLiquidity ==
    /\ op = "input"
    /\ ret' = Ret(TRUE, "", identify_sellside_liquidity(args[1], args[2]), <<>>)
    /\ op' = "identify_sellside_liquidity"
    /\ UNCHANGED <<args, AnalysisFrame>>

\* increment_touch() on one of the zones returned, which stay in ret
IncrementTouch ==
    /\ op \in {"identify_buyside_liquidity", "identify_sellside_liquidity", "increment_touch"}
    /\ \E n \in 1..Len(ret.val) :
        /\ ret.val[n].touched_count < MaxTouches
        /\ ret' = [ret EXCEPT !.val[n] = increment_touch(ret.val[n])]
    /\ op' = "increment_touch"
    /\ UNCHANGED <<args, AnalysisFrame>>

-----------------------------------------------------------------------------
(* Specifications *)

InitComponents ==
    /\ now = 0
    /\ ret = NoRet
    /\ rm = RiskManagerInit
    /\ trip_at = NoTime
    /\ gate = ExecutionGateInit
    /\ lock = 0
    /\ pc = [t \in Threads |-> "idle"]
    /\ targ = [t \in Threads |-> <<>>]
    /\ mse = MarketStateEngineInit("ETHUSDT", TRUE)
    /\ out = [s \in {} |-> 0]
    /\ held = [t \in Threads |-> <<>>]
    /\ fetcher = DataFetcherInit
    /\ exchange = ExchangeInit

InitObjects ==
    /\ InitComponents
    /\ threads = ThreadsInit
    /\ op = "init"
    /\ args = <<>>

\* the system as constructed: the gate builds its PositionManager itself
Init ==
    /\ InitObjects
    /\ pm = PositionManagerInit(gate_max_positions)
    /\ sys = StrategySystemInit("fakeout", TRUE)
    /\ worker = WorkerInit(InitialState(sys.kind))

\* a PositionManager of either capacity
InitPositions ==
    /\ InitObjects
    /\ pm \in {PositionManagerInit(m) : m \in MaxPositionsChoices}
    /\ sys = StrategySystemInit("fakeout", TRUE)
    /\ worker = WorkerInit(InitialState(sys.kind))

AddPositionStep == \E t \in Threads :
    \/ \E p \in PositionInputs : AddPositionEnter(t, p)
    \/ AddPositionReject(t)
    \/ AddPositionPass(t)
    \/ AddPositionInsert(t)

ClosePositionStep == \E t \in Threads :
    \/ \E symbol \in Symbols, exit_price \in ExitPrices : ClosePositionEnter(t, symbol, exit_price)
    \/ ClosePositionMissing(t)
    \/ ClosePositionFound(t)
    \/ ClosePositionBody(t)

ClearAllPositionsStep == \E t \in Threads : ClearAllPositions(t)

\* the RiskManager driven by its callers
Next ==
    \/ Tick
    \/ SetInitialBalance
    \/ UpdatePnl
    \/ ResetCircuitBreaker
    \/ IsAllowedToTrade

Spec == Init /\ [][Next]_vars

\* the PositionManager called from several threads
NextPositions ==
    \/ AddPositionStep
    \/ ClosePositionStep
    \/ ClearAllPositionsStep

SpecPositions == InitPositions /\ [][NextPositions]_vars

\* the orchestration thread opening and closing positions around the gate
GatePositionInputs == { p \in PositionInputs : p.side = "LONG" }

GateAddPosition ==
    \/ \E p \in GatePositionInputs : AddPositionEnter(1, p)
    \/ AddPositionReject(1)
    \/ AddPositionPass(1)
    \/ AddPositionInsert(1)

GateClosePosition ==
    \/ \E symbol \in Symbols : ClosePositionEnter(1, symbol, 110)
    \/ ClosePositionMissing(1)
    \/ ClosePositionFound(1)
    \/ ClosePositionBody(1)

\* the ExecutionGate and its PositionManager driven by the orchestration thread
NextGate ==
    \/ Tick
    \/ GateCheck
    \/ RecordTrade
    \/ GateAddPosition
    \/ GateClosePosition

SpecGate == Init /\ [][NextGate]_vars

\* the MarketStateEngine
NextMarket ==
    \/ SetSleepFilter
    \/ DetermineState
    \/ Analyze
    \/ AnalyzeRaises
    \/ AnalyzeBatch

SpecMarket == Init /\ [][NextMarket]_vars

\* the positions opened while references are followed: one of each side
ReferencePositionInputs ==
    { Position("BTCUSDT", "LONG", 100, 100, 95, 110),
      Position("ETHUSDT", "SHORT", 100, 100, 105, 90) }

ReferenceSymbols == { p.symbol : p \in ReferencePositionInputs }

ReferenceAddPosition == \E t \in Threads :
    \/ \E p \in ReferencePositionInputs : AddPositionEnter(t, p)
    \/ AddPositionReject(t)
    \/ AddPositionPass(t)
    \/ AddPositionInsert(t)

ReferenceClosePosition == \E t \in Threads :
    \/ \E symbol \in ReferenceSymbols, exit_price \in ExitPrices :
            ClosePositionEnter(t, symbol, exit_price)
    \/ ClosePositionMissing(t)
    \/ ClosePositionFound(t)
    \/ ClosePositionBody(t)

\* the monitoring thread is the one that keeps references between calls
\* (eth_fakeout_strategy_system.py:499-525); every thread opens and closes
Monitors == {1}

GetPositionStep == \E t \in Monitors, symbol \in ReferenceSymbols : GetPosition(t, symbol)

ShouldStopLossStep == \E t \in Monitors, price \in ExitPrices : ShouldStopLoss(t, price)

ShouldTakeProfitStep == \E t \in Monitors, price \in ExitPrices : ShouldTakeProfit(t, price)

\* threads that keep Position references while others close or clear positions
NextReferences ==
    \/ ReferenceAddPosition
    \/ ReferenceClosePosition
    \/ ClearAllPositionsStep
    \/ GetPositionStep
    \/ ShouldStopLossStep
    \/ ShouldTakeProfitStep

SpecReferences == Init /\ [][NextReferences]_vars

TradeClosePosition ==
    \/ \E symbol \in TradeSymbols : ClosePositionEnter(1, symbol, 110)
    \/ ClosePositionMissing(1)
    \/ ClosePositionFound(1)
    \/ ClosePositionBody(1)

\* either strategy system, in simulation or live
InitTrade ==
    /\ InitObjects
    /\ pm = PositionManagerInit(gate_max_positions)
    /\ sys \in {StrategySystemInit(k, b) : k \in SystemKinds, b \in BOOLEAN}
    /\ worker = WorkerInit(InitialState(sys.kind))

\* the orchestration thread executing trades while positions get closed
NextTrade ==
    \/ Tick
    \/ SetSimulation
    \/ ExecuteTradeFakeout
    \/ ExecuteTradeFVG
    \/ TradeClosePosition

SpecTrade == InitTrade /\ [][NextTrade]_vars

\* any of the three systems, constructed and not yet started
InitLoops ==
    /\ InitObjects
    /\ pm = PositionManagerInit(gate_max_positions)
    /\ sys \in {StrategySystemInit(k, TRUE) : k \in LoopKinds}
    /\ worker = WorkerInit(InitialState(sys.kind))

\* the steps of the worker thread
WorkerStep ==
    \/ LoopTest
    \/ MainLoopPaused
    \/ MainLoopCycle
    \/ RunLoopCycle
    \/ RunLoopIdle
    \/ LoopHandler

\* the worker thread and the control calls of the owner
NextLoops ==
    \/ Start
    \/ Stop
    \/ Pause
    \/ Resume
    \/ WorkerStep

\* a started worker thread keeps being scheduled
SpecLoops == InitLoops /\ [][NextLoops]_vars /\ WF_vars(WorkerStep)

\* the running fakeout system reconfigured from the parameter panel
NextConfig ==
    \/ Tick
    \/ UpdateParameters
    \/ RecordTrade
    \/ GateCheck
    \/ SetSleepFilter

SpecConfig == Init /\ [][NextConfig]_vars

\* detect_confluence called on the analyses of a symbol
NextConfluence == DetectConfluence

SpecConfluence == Init /\ [][NextConfluence]_vars

\* FakeoutStrategy.analyze called on the candles of a symbol
FakeoutInputs ==
    { <<klines, FetcherAnswers(atr, klines[Len(klines)].close, volume_surge)>> :
        klines \in KlineLists, atr \in AtrChoices, volume_surge \in BOOLEAN }

\* the objects as constructed, with the inputs of one call of a pure function
InitInputs(inputs) ==
    /\ InitComponents
    /\ threads = ThreadsInit
    /\ pm = PositionManagerInit(gate_max_positions)
    /\ sys = StrategySystemInit("fakeout", TRUE)
    /\ worker = WorkerInit(InitialState(sys.kind))
    /\ op = "input"
    /\ args \in inputs

InitFakeout == InitInputs(FakeoutInputs)

NextFakeout == FakeoutAnalyze

SpecFakeout == InitFakeout /\ [][NextFakeout]_vars

\* FVGStrategy called on the candles of a symbol
FvgInputs ==
    { <<klines, current_price, atr>> :
        klines \in FvgKlineLists, current_price \in {0, 1900, 2000, 2100},
        atr \in {0, 10} }

InitFvg == InitInputs(FvgInputs)

NextFvg ==
    \/ GenerateFvgSignals
    \/ IdentifyFvgs
    \/ CheckFvgFill

SpecFvg == InitFvg /\ [][NextFvg]_vars

\* LiquidityAnalyzer called on the candles of a symbol, and the zones touched
LiquidityInputs ==
    { <<klines, current_price>> : klines \in SwingKlineLists, current_price \in {2000} }

InitLiquidity == InitInputs(LiquidityInputs)

NextLiquidity ==
    \/ IdentifyBuysideLiquidity
    \/ IdentifySellsideLiquidity
    \/ IncrementTouch

SpecLiquidity == InitLiquidity /\ [][NextLiquidity]_vars

-----------------------------------------------------------------------------
(* Properties of the RiskManager, checked under Spec *)

\* current drawdown of the equity curve, as update_pnl last computed it
CurrentDrawdown ==
    Drawdown(SeqMax(rm.equity_curve), rm.equity_curve[Len(rm.equity_curve)])

\* C1: when the breaker was tripped by max_consecutive_losses consecutive losses,
\* the first is_allowed_to_trade() made more than 30 minutes after the trip, with no
\* update_pnl in between, resets the breaker to NORMAL and returns (True, allowed).
C1_CooldownAllowsTrading ==
    [][ ( /\ op' = "is_allowed_to_trade"
          /\ rm.circuit_breaker_state = "TRIGGERED"
          /\ rm.circuit_breaker_time # NoTime
          /\ now - rm.circuit_breaker_time > CooldownMinutes
          /\ rm.consecutive_losses >= rm.max_consecutive_losses
          /\ rm.max_drawdown < rm.max_drawdown_percent * DrawdownScale )
        => ( /\ rm'.circuit_breaker_state = "NORMAL"
             /\ ret'.ok
             /\ ret'.reason = "allowed" ) ]_vars

\* C2: right after any update_pnl call, if max_drawdown >= max_drawdown_percent, or
\* consecutive_losses >= max_consecutive_losses, or daily_pnl <= -daily_loss_limit,
\* the breaker is TRIGGERED; and every is_allowed_to_trade() made within the
\* following 30 minutes, with no reset_circuit_breaker call, returns (False, reason).
C2_TripBlocksTrading ==
    /\ (op = "update_pnl" /\ TripCondition(rm))
           => rm.circuit_breaker_state = "TRIGGERED"
    /\ (op = "is_allowed_to_trade" /\ trip_at # NoTime /\ now - trip_at <= CooldownMinutes)
           => (~ret.ok /\ ret.reason # "allowed")

\* an is_allowed_to_trade() answered exactly 30 minutes after a trip
C2_Witness ==
    /\ op = "is_allowed_to_trade"
    /\ trip_at # NoTime
    /\ now - trip_at = CooldownMinutes
    /\ ~ret.ok

\* C3: across update_pnl, is_allowed_to_trade and reset_circuit_breaker calls,
\* metrics.max_drawdown never decreases.
C3_MaxDrawdownMonotonic ==
    [][ rm'.max_drawdown >= rm.max_drawdown ]_vars

\* a winning update_pnl after which the current drawdown is below the high-water
\* mark, a reset having happened before (daily_start_time was moved)
C3_Witness ==
    /\ op = "update_pnl"
    /\ args[1] > 0
    /\ rm.daily_start_time > 0
    /\ rm.max_drawdown > 0
    /\ CurrentDrawdown < rm.max_drawdown

\* C4: reset_circuit_breaker() sets the state to NORMAL, clears the trip time and sets
\* daily_pnl to 0, and leaves max_drawdown, total_trades, winning_trades,
\* losing_trades, total_pnl, consecutive_losses and the historical
\* max_consecutive_losses unchanged.
C4_ResetFrame ==
    [][ op' = "reset_circuit_breaker"
        => ( /\ rm'.circuit_breaker_state = "NORMAL"
             /\ rm'.circuit_breaker_time = NoTime
             /\ rm'.daily_pnl = 0
             /\ rm'.max_drawdown = rm.max_drawdown
             /\ rm'.total_trades = rm.total_trades
             /\ rm'.winning_trades = rm.winning_trades
             /\ rm'.losing_trades = rm.losing_trades
             /\ rm'.total_pnl = rm.total_pnl
             /\ rm'.consecutive_losses = rm.consecutive_losses
             /\ rm'.hist_max_consecutive_losses = rm.hist_max_consecutive_losses ) ]_vars

\* a reset of a breaker tripped by a losing streak, with drawdown on record
C4_Witness ==
    /\ op = "reset_circuit_breaker"
    /\ rm.consecutive_losses >= rm.max_consecutive_losses
    /\ rm.max_drawdown > 0
    /\ rm.winning_trades > 0
    /\ rm.total_pnl # 0

-----------------------------------------------------------------------------
(* Properties of the MarketStateEngine, checked under SpecMarket *)

\* the symbols of the last analysis whose data was fetched
Fetched ==
    IF op = "analyze_batch"
        THEN { s \in DOMAIN out : ~args[2][s].failed }
        ELSE DOMAIN out

\* C5: when the sleep filter of an engine is disabled, every MarketStateInfo it
\* produces for a symbol whose data was fetched is ACTIVE or AGGRESSIVE, never SLEEP:
\* for _determine_state, for analyze and for each symbol of analyze_batch.
C5_NoSleepWhenFilterDisabled ==
    (op \in {"_determine_state", "analyze", "analyze_batch"} /\ ~mse.enable_sleep_filter)
        => \A s \in Fetched : out[s].state \in {"ACTIVE", "AGGRESSIVE"}

-----------------------------------------------------------------------------
(* Properties of the ExecutionGate, checked under SpecGate *)

\* the four checks of section 4.8, each on its own, on the arguments of the last call
IntervalFails ==
    gate.last_trade_time # NoTime /\ now - gate.last_trade_time < gate.min_trade_interval

CapacityFails == pm.position_count >= pm.max_positions

LatestKline == args[2][Len(args[2])]

\* body-to-range ratio >= 0.3 is what lets a candle through
BodyPasses ==
    \/ args[2] = <<>>
    \/ /\ range_size(LatestKline) > 0
       /\ 10 * body_size(LatestKline) >= 3 * range_size(LatestKline)

StopDistanceFails ==
    /\ args[1].has_prices
    /\ 100 * Abs(args[1].stop_loss - args[1].entry_price) < args[1].entry_price

\* C6: check evaluates trade interval, position capacity, latest-candle body ratio and
\* stop-loss distance in this order; it returns (False, reason) with the reason of the
\* first check that fails, and (True, ...) only when all four pass.
C6_FirstFailureDecides ==
    op = "check" =>
        /\ IntervalFails => (~ret.ok /\ ret.reason = "trade_interval")
        /\ (~IntervalFails /\ CapacityFails) => (~ret.ok /\ ret.reason = "max_positions")
        /\ (~IntervalFails /\ ~CapacityFails /\ ~BodyPasses)
               => (~ret.ok /\ ret.reason = "candle_body")
        /\ (~IntervalFails /\ ~CapacityFails /\ BodyPasses /\ StopDistanceFails)
               => (~ret.ok /\ ret.reason = "stop_distance")
        /\ (~IntervalFails /\ ~CapacityFails /\ BodyPasses /\ ~StopDistanceFails)
               => (ret.ok /\ ret.reason = "passed")

\* C7: every check() made less than min_trade_interval after the most recent
\* record_trade() returns (False, reason with the remaining seconds), whatever the
\* signal, candles and position count; when record_trade() was never called, the
\* interval check never rejects.
C7_IntervalRejects ==
    op = "check" =>
        /\ (gate.last_trade_time # NoTime
                /\ now - gate.last_trade_time < gate.min_trade_interval)
            => ( /\ ~ret.ok
                 /\ ret.reason = "trade_interval"
                 /\ ret.val > 0
                 /\ ret.val = 60 * (gate.last_trade_time + gate.min_trade_interval - now) )
        /\ gate.last_trade_time = NoTime => ret.reason # "trade_interval"

\* a check 5 minutes after a trade, at capacity, on a flat latest candle
C7_Witness ==
    /\ op = "check"
    /\ gate.last_trade_time # NoTime
    /\ now - gate.last_trade_time = TickMinutes
    /\ now - gate.last_trade_time < gate.min_trade_interval
    /\ ret.reason = "trade_interval"
    /\ pm.position_count >= pm.max_positions
    /\ args[2] # <<>>
    /\ range_size(LatestKline) = 0

\* C8: check never changes last_trade_time or the set of active positions, whether
\* it accepts or rejects; last_trade_time changes only when record_trade() is called.
C8_CheckIsQueryOnly ==
    [][ /\ op' = "check" => (gate' = gate /\ pm' = pm)
        /\ gate'.last_trade_time # gate.last_trade_time => op' = "record_trade" ]_vars

\* an accepting check with a trade on record and a position open
C8_Witness ==
    /\ op = "check"
    /\ ret.ok
    /\ gate.last_trade_time # NoTime
    /\ pm.position_count > 0

-----------------------------------------------------------------------------
(* Properties of the PositionManager, checked under SpecPositions *)

\* C9: after any sequence of add_position, close_position and clear_all_positions
\* calls from any number of threads, the active count equals the number of symbols
\* in the active map and never exceeds max_positions, with one position per symbol,
\* because add_position returns False and changes nothing when the manager is at
\* capacity or already holds a position for the symbol.
C9_CountMatchesMap ==
    /\ [] ( /\ pm.position_count = Cardinality(DOMAIN pm.positions)
            /\ pm.position_count <= pm.max_positions
            /\ \A s \in DOMAIN pm.positions : pm.positions[s].symbol = s )
    /\ [][ op' = "add_position" =>
            IF pm.position_count >= pm.max_positions
                  \/ args'[1].symbol \in DOMAIN pm.positions
              THEN ~ret'.ok /\ pm' = pm
              ELSE /\ ret'.ok
                   /\ pm'.position_count = pm.position_count + 1
                   /\ pm'.positions[args'[1].symbol] = args'[1] ]_vars

\* an add_position for a new symbol turned down by a full manager
C9_Witness ==
    /\ op = "add_position"
    /\ ~ret.ok
    /\ args[1].symbol \notin DOMAIN pm.positions
    /\ pm.position_count = pm.max_positions

\* C10: close_position(symbol, exit_price) on an active symbol sets
\* pnl = (exit - entry) / entry * quantity for LONG and the negated value for SHORT,
\* sets status PROFIT_TAKEN when pnl > 0 and STOPPED otherwise, removes the symbol
\* from the active map, decrements the count by one and returns the record; on a
\* symbol that is not active it returns None and changes nothing.
C10_ClosePosition ==
    [][ op' = "close_position" =>
          LET symbol == args'[1]
              exit == args'[2]
          IN  IF symbol \in DOMAIN pm.positions
                THEN LET p == pm.positions[symbol]
                         c == ret'.pos[1]
                     IN  /\ ret'.ok
                         /\ Len(ret'.pos) = 1
                         /\ c.symbol = symbol
                         /\ c.exit_price = exit
                         /\ p.side = "LONG"
                              => c.pnl * p.entry_price = (exit - p.entry_price) * p.quantity
                         /\ p.side = "SHORT"
                              => c.pnl * p.entry_price = (p.entry_price - exit) * p.quantity
                         /\ c.status = IF c.pnl > 0 THEN "PROFIT_TAKEN" ELSE "STOPPED"
                         /\ DOMAIN pm'.positions = DOMAIN pm.positions \ {symbol}
                         /\ \A s \in DOMAIN pm'.positions : pm'.positions[s] = pm.positions[s]
                         /\ pm'.position_count = pm.position_count - 1
                ELSE ~ret'.ok /\ ret'.pos = <<>> /\ pm' = pm ]_vars

\* the LONG position entered at 100 with quantity 100 closed at 110 for a pnl of 10
C10_Witness ==
    /\ op = "close_position"
    /\ ret.ok
    /\ ret.pos[1].side = "LONG"
    /\ ret.pos[1].entry_price = 100
    /\ ret.pos[1].quantity = 100
    /\ ret.pos[1].exit_price = 110
    /\ ret.pos[1].pnl = 10
    /\ ret.pos[1].status = "PROFIT_TAKEN"
    /\ ret.pos[1].symbol \notin DOMAIN pm.positions

-----------------------------------------------------------------------------
(* Properties of Position references, checked under SpecReferences *)

\* C11: once a Position's status is no longer ACTIVE, should_stop_loss and
\* should_take_profit return False for every price; and when close_position
\* returns a Position, every reference to that object taken before the close
\* shows a status that is not ACTIVE (so the two methods return False on it).
C11_ClosedNeverTriggers ==
    /\ [] ( (op \in {"should_stop_loss", "should_take_profit"}
              /\ args[1].status # "ACTIVE") => ~ret.ok )
    /\ [][ (op' = "close_position" /\ ret'.ok) =>
             \A t \in Threads :
                (held[t] # <<>> /\ held[t][1].inmap /\ held[t][1].pos.symbol = args'[1])
                  => /\ held'[t][1].pos = ret'.pos[1]
                     /\ held'[t][1].pos.status # "ACTIVE"
                     /\ \A price \in ExitPrices :
                           /\ ~should_stop_loss(held'[t][1].pos, price)
                           /\ ~should_take_profit(held'[t][1].pos, price) ]_vars

\* a LONG position closed by another call, asked about its stop-loss at a price
\* under the stop through a reference taken while it was active
C11_Witness ==
    /\ op = "should_stop_loss"
    /\ args[1].side = "LONG"
    /\ args[1].status = "STOPPED"
    /\ args[2] <= args[1].stop_loss
    /\ ~ret.ok

-----------------------------------------------------------------------------
(* Properties of the strategy systems, checked under SpecTrade *)

\* C12: with enable_simulation true, _execute_trade of either strategy system
\* (given a signal) calls place_market_order zero times, records the trade time in
\* the execution gate and adds to the position manager a Position with a synthetic
\* order id.  Stated for the calls most favourable to the code: the manager has
\* room and holds no position for the symbol.
C12_SimulatedTrade ==
    [][ ( /\ op' = "_execute_trade"
          /\ sys.enable_simulation
          /\ args'[2] # <<>>
          /\ ~is_at_capacity(pm)
          /\ ~InMap(pm, args'[1]) )
        => /\ ret'.val = 0
           /\ gate'.last_trade_time = now
           /\ InMap(pm', args'[1])
           /\ pm'.positions[args'[1]].order_id # <<>>
           /\ pm'.positions[args'[1]].order_id[1] = "SIM" ]_vars

-----------------------------------------------------------------------------
(* Properties of the orchestration loops, checked under SpecLoops *)

\* C13: in each of the three loops the worker thread returns only once the
\* running flag is cleared, and after a cycle has raised and the handler has run
\* its backoff a later cycle is executed, unless the running flag is cleared or
\* the system is paused in between.
C13_LoopSurvivesFailure ==
    /\ [][ (worker.pc # "done" /\ worker'.pc = "done") => ~worker.running ]_vars
    /\ (op = "handler") ~> (op = "cycle" \/ ~worker.running \/ worker.state = "PAUSED")

-----------------------------------------------------------------------------
(* Properties of update_parameters, checked under SpecConfig *)

\* C14: after update_parameters with a dictionary keyed as to_dict produces it,
\* the gate's minimum trade interval is the dictionary's
\* execution_gate.min_trade_interval_minutes (in minutes) and the engine's sleep
\* filter equals market_state_engine.enable_market_sleep_filter.
C14_ParametersApplied ==
    [][ ( /\ op' = "update_parameters"
          /\ "market_state_engine" \in DOMAIN args'[1] )
        => /\ gate'.min_trade_interval
                = args'[1]["execution_gate"]["min_trade_interval_minutes"]
           /\ mse'.enable_sleep_filter
                = args'[1]["market_state_engine"]["enable_market_sleep_filter"] ]_vars

-----------------------------------------------------------------------------
(* Properties of detect_confluence, checked under SpecConfluence *)

\* the signals of direction d in the valid analyses with signals
DirectionSignals(analyses, d) ==
    LET valid == { tf \in DOMAIN analyses :
                     analyses[tf].is_valid /\ Len(analyses[tf].trading_signals) > 0 }
    IN  SelectSeq(all_signals_of(analyses, valid), LAMBDA x : x[2].signal_type = d)

RECURSIVE WeightedSum(_)
WeightedSum(signals) ==
    IF signals = <<>> THEN 0
    ELSE signals[1][2].confidence * timeframe_weight(signals[1][1]) + WeightedSum(Tail(signals))

RECURSIVE WeightSum(_)
WeightSum(signals) ==
    IF signals = <<>> THEN 0
    ELSE timeframe_weight(signals[1][1]) + WeightSum(Tail(signals))

\* the weighted score of direction d as the fraction <<sum of confidence x
\* weight, sum of weights>>, <<0, 1>> without signals
WeightedScore(analyses, d) ==
    IF DirectionSignals(analyses, d) = <<>> THEN <<0, 1>>
    ELSE <<WeightedSum(DirectionSignals(analyses, d)), WeightSum(DirectionSignals(analyses, d))>>

\* direction d beats the other direction e and the floor of 0.3 (30 percent)
Wins(analyses, d, e) ==
    /\ RatGt(WeightedScore(analyses, d), WeightedScore(analyses, e))
    /\ RatGt(WeightedScore(analyses, d), <<30, 1>>)

\* C15: detect_confluence returns a confluence of direction D only if D's weighted
\* score is strictly greater than the other direction's and than 0.3, and in
\* every other case (equal scores, no valid analysis with signals, ...) it
\* returns None.
C15_ConfluenceNeedsWinner ==
    op = "detect_confluence" =>
        /\ ret.reason = "BUY" => Wins(args[1], "BUY", "SELL")
        /\ ret.reason = "SELL" => Wins(args[1], "SELL", "BUY")
        /\ (~Wins(args[1], "BUY", "SELL") /\ ~Wins(args[1], "SELL", "BUY"))
              => (ret.ok /\ ret.reason = "None")

-----------------------------------------------------------------------------
(* Properties of FakeoutStrategy.analyze, checked under SpecFakeout *)

\* the indices of the 10 most recent candles
RecentIndices(klines) == { i \in 1..Len(klines) : i > Len(klines) - RecentWindow }

\* among the recent candles one closes above the level with breakout strength
\* > 0.1% and a later one closes back below it with rejection strength > 0.1%
BullishFakeoutSeen(klines, level) ==
    \E i, j \in RecentIndices(klines) :
        /\ i < j
        /\ klines[i].close > level /\ Exceeds(klines[i].high - level, level)
        /\ klines[j].close < level /\ Exceeds(level - klines[j].low, level)

BearishFakeoutSeen(klines, level) ==
    \E i, j \in RecentIndices(klines) :
        /\ i < j
        /\ klines[i].close < level /\ Exceeds(level - klines[i].low, level)
        /\ klines[j].close > level /\ Exceeds(klines[j].high - level, level)

\* the swing levels of the given type formed within the last 50 candles
RecentLevels(klines, type) ==
    { x.level : x \in { new_levels_from(klines, swing_period + 1)[n] :
                          n \in 1..Len(new_levels_from(klines, swing_period + 1)) }
                       \cap { y \in { new_levels_from(klines, swing_period + 1)[n] :
                                 n \in 1..Len(new_levels_from(klines, swing_period + 1)) } :
                               y.type = type /\ is_recent(klines, y) } }

Emitted(signals, signal_type, level, stop, target) ==
    \E n \in 1..Len(signals) :
        /\ signals[n].signal_type = signal_type
        /\ signals[n].entry_price = level
        /\ signals[n].stop_loss = stop
        /\ signals[n].take_profit = target
        /\ signals[n].confidence >= 50 /\ signals[n].confidence <= 95

\* C16: for a swing-high level L formed within the last 50 candles, whenever among
\* the 10 most recent candles one closes above L with breakout strength > 0.1%
\* and a later one closes back below L with rejection strength > 0.1%, analyze
\* emits a BUY signal with entry L, stop L - 2 ATR, target L + 4 ATR and
\* confidence in [0.5, 0.95]; mirrored on a swing-low level with a SELL signal,
\* stop L + 2 ATR and target L - 4 ATR.
C16_FakeoutEmitsSignal ==
    op = "fakeout_analyze" =>
        /\ \A level \in RecentLevels(args[1], "SWING_HIGH") :
              BullishFakeoutSeen(args[1], level) =>
                  Emitted(ret.val, "BUY", level, level - 2 * args[2].atr,
                          level + 4 * args[2].atr)
        /\ \A level \in RecentLevels(args[1], "SWING_LOW") :
              BearishFakeoutSeen(args[1], level) =>
                  Emitted(ret.val, "SELL", level, level + 2 * args[2].atr,
                          level - 4 * args[2].atr)

-----------------------------------------------------------------------------
(* Properties of the FVGStrategy, checked under SpecFvg *)

\* the analysis happens while the last candle is open
AnalysisTime(klines) == klines[Len(klines)].open_time

\* C17: generate_fvg_signals emits no signal whose FVG was formed more than
\* max_fvg_age_minutes before the time of the analysis.
C17_NoSignalFromOldFvg ==
    op = "generate_fvg_signals" =>
        \A n \in 1..Len(ret.val) :
            AnalysisTime(args[1]) - ret.val[n].fvg.formation_time <= max_fvg_age_minutes

\* a candle after the formation of the gap reached its lower bound (bullish)
\* or its upper bound (bearish)
Reached(klines, fvg) ==
    \E i \in 1..Len(klines) :
        /\ klines[i].open_time >= fvg.formation_time
        /\ IF fvg.gap_type = "BULLISH" THEN klines[i].low <= fvg.low_bound
           ELSE klines[i].high >= fvg.high_bound

\* C18: is_filled only ever changes from False to True, and no signal returned by
\* generate_fvg_signals is based on an FVG for which some candle after its
\* formation reached the gap's lower bound (bullish) or upper bound (bearish).
C18_FilledStaysFilled ==
    /\ op = "check_fvg_fill" => (args[4].is_filled => ret.val.is_filled)
    /\ op = "generate_fvg_signals" =>
          \A n \in 1..Len(ret.val) :
              ~ret.val[n].fvg.is_filled /\ ~Reached(args[1], ret.val[n].fvg)

\* a gap checked a second time stays filled, and a signal is returned from
\* candles among which a gap was reached and dropped
C18_Witness ==
    \/ op = "check_fvg_fill" /\ args[4].is_filled /\ ret.val.is_filled
    \/ /\ op = "generate_fvg_signals" /\ ret.val # <<>>
       /\ \E n \in 1..Len(gaps_from(args[1], 2)) : Reached(args[1], gaps_from(args[1], 2)[n])

-----------------------------------------------------------------------------
(* Properties of the LiquidityZone, checked under SpecLiquidity *)

\* the strength a zone was created with: that of the swing point at its level
CreatedStrength(zone, current_price) == strength_at(Abs(current_price - zone.level), current_price)

\* C19: a LiquidityZone's strength never increases after the zone is created: not
\* across any sequence of increment_touch() calls, and not when another swing
\* point within 0.1% of price is merged into the zone during
\* identify_buyside_liquidity / identify_sellside_liquidity.
C19_StrengthNeverIncreases ==
    /\ [](op \in {"identify_buyside_liquidity", "identify_sellside_liquidity"} =>
            \A n \in 1..Len(ret.val) :
                ~RatGt(ret.val[n].strength, CreatedStrength(ret.val[n], args[2])))
    /\ [][op' = "increment_touch" =>
            \A n \in 1..Len(ret.val) : ~RatGt(ret'.val[n].strength, ret.val[n].strength)]_vars

-----------------------------------------------------------------------------
(* Properties of analyze_batch, checked under SpecMarket *)

\* the data of the symbols other than s
WithoutSymbol(data, s) == [t \in (DOMAIN data) \ {s} |-> data[t]]

\* C20: analyze_batch(symbols) returns an entry for every requested symbol; when
\* the analysis of one symbol raises, that symbol's entry has state SLEEP,
\* score 0 and a failure reason, and the entries of all other symbols are the
\* same as if the failing symbol had not been in the list.
C20_BatchIsolatesFailure ==
    op = "analyze_batch" =>
        /\ DOMAIN out = args[1]
        /\ \A s \in args[1] :
              args[2][s].failed =>
                  /\ out[s].state = "SLEEP"
                  /\ out[s].score = <<0, 1>>
                  /\ out[s].reasons # <<>>
                  /\ \A t \in args[1] \ {s} :
                        out[t] = analyze_batch(mse, args[1] \ {s},
                                               WithoutSymbol(args[2], s))[t]

\* one symbol's analysis raised while another symbol was found tradeable
C20_Witness ==
    /\ op = "analyze_batch"
    /\ \E s, t \in args[1] :
          /\ args[2][s].failed
          /\ ~args[2][t].failed
          /\ out[t].state # "SLEEP"
          /\ out[s].state = "SLEEP"

-----------------------------------------------------------------------------
(* The DataFetcher in front of the exchange *)

FetcherFrame == <<now, rm, trip_at, gate, pm, lock, pc, targ, held, mse, out, sys, worker, threads>>

\* time passes at the DataFetcher
FetcherTick ==
    /\ exchange.seconds + TickSeconds <= MaxSeconds
    /\ exchange' = [exchange EXCEPT !.seconds = @ + TickSeconds]
    /\ op' = "tick"
    /\ ret' = NoRet
    /\ args' = <<>>
    /\ UNCHANGED <<fetcher, FetcherFrame>>

\* the exchange closes one more candle of every symbol and interval
CandleCloses ==
    /\ exchange.closed < MaxCandles
    /\ exchange' = [exchange EXCEPT !.closed = @ + 1]
    /\ op' = "candle"
    /\ ret' = NoRet
    /\ args' = <<>>
    /\ UNCHANGED <<fetcher, FetcherFrame>>

ApiAnswers == {"list", "error"}

GetKlines == \E symbol \in FetcherSymbols, interval \in Intervals, limit \in Limits, answer \in ApiAnswers :
    LET got == get_klines(fetcher, exchange, answer, symbol, interval, limit)
    IN  /\ fetcher' = got.f
        /\ ret' = got.r
        /\ op' = "get_klines"
        /\ args' = <<symbol, interval, limit, answer>>
        /\ UNCHANGED <<exchange, FetcherFrame>>

GetLatestPrice == \E symbol \in FetcherSymbols, answer \in ApiAnswers :
    LET got == get_latest_price(fetcher, exchange, answer, symbol)
    IN  /\ fetcher' = got.f
        /\ ret' = got.r
        /\ op' = "get_latest_price"
        /\ args' = <<symbol, answer>>
        /\ UNCHANGED <<exchange, FetcherFrame>>

NextFetcher ==
    \/ FetcherTick
    \/ CandleCloses
    \/ GetKlines
    \/ GetLatestPrice

SpecFetcher == Init /\ [][NextFetcher]_vars

\* the call was served by the exchange or by a cache entry, not refused by it
Served == args[Len(args)] = "list"

\* C21: whenever the exchange answers, get_klines(symbol, interval, limit = N)
\* returns the N most recent candles of the exchange, at most N of them, and
\* get_latest_price returns the close of the newest candle (0.0 without one)
C21_KlinesAreTheMostRecent ==
    /\ (op = "get_klines" /\ Served) =>
            /\ ret.ok
            /\ Len(ret.pos) <= args[3]
            /\ ret.pos = make_request(exchange, args[3])
    /\ (op = "get_latest_price" /\ Served) =>
            /\ ret.ok
            /\ ret.val = (IF exchange.closed = 0 THEN 0 ELSE KlineRow(exchange.closed).close)

-----------------------------------------------------------------------------
(* The PositionManager with all its callers: worker threads, readers and the *)
(* parameter panel                                                          *)

\* current_prices handed to check_positions and get_total_pnl: one price for
\* every symbol
PricesAt(price) == [s \in Symbols |-> price]

RECURSIVE floating_pnl(_, _, _)
floating_pnl(m, symbols, current_prices) ==
    IF symbols = {} THEN 0
    ELSE LET s == CHOOSE x \in symbols : TRUE
         IN  calculate_pnl(m.positions[s], current_prices[s])
                + floating_pnl(m, symbols \ {s}, current_prices)

\* for symbol, position in self.positions.items(): total += ...; no lock is taken
get_total_pnl(m, current_prices) == floating_pnl(m, DOMAIN m.positions, current_prices)

check_positions(m, current_prices) ==
    { <<s, IF should_stop_loss(m.positions[s], current_prices[s]) THEN "stop_loss" ELSE "take_profit">> :
        s \in { x \in DOMAIN m.positions :
                    \/ should_stop_loss(m.positions[x], current_prices[x])
                    \/ should_take_profit(m.positions[x], current_prices[x]) } }

get_position_summary(m) ==
    [ total_positions |-> m.position_count, max_positions |-> m.max_positions,
      symbols |-> DOMAIN m.positions,
      long_count |-> Cardinality({ s \in DOMAIN m.positions : m.positions[s].side = "LONG" }),
      short_count |-> Cardinality({ s \in DOMAIN m.positions : m.positions[s].side = "SHORT" }) ]

LockedReaders ==
    { "get_all_positions", "get_position_count", "is_at_capacity", "check_positions",
      "get_position_summary" }

\* the readers whose body (check_positions: whose snapshot) is one `with self._lock:` block
locked_read(m, method, current_prices) ==
    CASE method = "get_all_positions" -> Ret(TRUE, "", 0, <<{m.positions[s] : s \in DOMAIN m.positions}>>)
      [] method = "get_position_count" -> Ret(TRUE, "", m.position_count, <<>>)
      [] method = "is_at_capacity" -> Ret(is_at_capacity(m), "", 0, <<>>)
      [] method = "check_positions" -> Ret(TRUE, "", 0, <<check_positions(m, current_prices)>>)
      [] method = "get_position_summary" -> Ret(TRUE, "", 0, <<get_position_summary(m)>>)

LockedRead(t, method, price) ==
    /\ LockFree(t)
    /\ op' = method
    /\ ret' = locked_read(pm, method, PricesAt(price))
    /\ args' = <<price>>
    /\ UNCHANGED <<pm, lock, pc, targ, held>>
    /\ UNCHANGED OtherObjects

\* get_total_pnl(current_prices) called by a thread that is in no other method
GetTotalPnl(t, price) ==
    /\ pc[t] = "idle"
    /\ op' = "get_total_pnl"
    /\ ret' = Ret(TRUE, "", get_total_pnl(pm, PricesAt(price)), <<>>)
    /\ args' = <<price>>
    /\ UNCHANGED <<pm, lock, pc, targ, held>>
    /\ UNCHANGED OtherObjects

LockedReadStep == \E t \in Threads, method \in LockedReaders, price \in ExitPrices :
    LockedRead(t, method, price)

GetTotalPnlStep == \E t \in Threads, price \in ExitPrices : GetTotalPnl(t, price)

ManagerAddPosition == \E t \in Threads :
    \/ \E p \in ReferencePositionInputs : AddPositionEnter(t, p)
    \/ AddPositionReject(t)
    \/ AddPositionPass(t)
    \/ AddPositionInsert(t)

\* worker threads, readers and update_parameters of the parameter panel
NextManager ==
    \/ ManagerAddPosition
    \/ ReferenceClosePosition
    \/ ClearAllPositionsStep
    \/ LockedReadStep
    \/ GetTotalPnlStep
    \/ UpdateParameters

SpecManager == Init /\ [][NextManager]_vars

\* the methods of the PositionManager and the one outside writer of its fields
ManagerOperations ==
    LockedReaders \cup
        { "add_position", "close_position", "get_position", "clear_all_positions",
          "get_total_pnl" }

\* the step read or wrote the position map, the counter or max_positions
TouchesManager ==
    \/ op' \in ManagerOperations
    \/ op' = "update_parameters" /\ "execution_gate" \in DOMAIN args'[1]
          /\ "max_positions" \in DOMAIN args'[1]["execution_gate"]

\* the step was taken under the mutex: by a method that found it free and
\* took it, or by the thread that holds it and moves on inside its method
UnderMutex == lock = 0 \/ pc'[lock] # pc[lock]

\* C22: every step that reads or writes the position map, the position counter
\* or max_positions is taken under the single mutex of the PositionManager
C22_ManagerStepsHoldMutex == [][TouchesManager => UnderMutex]_vars

-----------------------------------------------------------------------------
(* The circuit breaker of the RiskManager, checked under Spec *)

BreakerStates == {"NORMAL", "TRIGGERED"}

\* is_allowed_to_trade found the cooldown over and reset the breaker itself
CooldownOver ==
    /\ rm.circuit_breaker_time # NoTime
    /\ now - rm.circuit_breaker_time > CooldownMinutes

BreakerTrips ==
    rm.circuit_breaker_state = "NORMAL" /\ rm'.circuit_breaker_state = "TRIGGERED"

BreakerResets ==
    rm.circuit_breaker_state = "TRIGGERED" /\ rm'.circuit_breaker_state = "NORMAL"

\* C25: the breaker state is NORMAL or TRIGGERED and never PAUSED; the trip
\* time is set exactly while the state is TRIGGERED; the breaker goes from
\* NORMAL to TRIGGERED only inside update_pnl and from TRIGGERED to NORMAL only
\* through reset_circuit_breaker, called by hand or by is_allowed_to_trade once
\* more than 30 minutes have passed since the trip
C25_BreakerStateMachine ==
    /\ [](/\ rm.circuit_breaker_state \in BreakerStates
          /\ (rm.circuit_breaker_time # NoTime) <=> (rm.circuit_breaker_state = "TRIGGERED"))
    /\ [][/\ BreakerTrips => op' = "update_pnl"
          /\ BreakerResets =>
                \/ op' = "reset_circuit_breaker"
                \/ op' = "is_allowed_to_trade" /\ CooldownOver]_vars

\* a tripped breaker that is_allowed_to_trade has reset after the cooldown
C25_Witness ==
    /\ op = "is_allowed_to_trade"
    /\ rm.circuit_breaker_state = "NORMAL"
    /\ rm.total_trades > 0
    /\ rm.daily_start_time = now
    /\ now > CooldownMinutes

\* C30: update_pnl with a positive PnL leaves a NORMAL breaker NORMAL, also
\* after an earlier trip has been reset
C30_WinNeverTrips ==
    [][(op' = "update_pnl" /\ args'[1] > 0 /\ rm.circuit_breaker_state = "NORMAL")
            => rm'.circuit_breaker_state = "NORMAL"]_vars

-----------------------------------------------------------------------------
(* One orchestration cycle of MultiSymbolFakeoutSystem after the other *)

Range(f) == { f[i] : i \in DOMAIN f }

\* self.selected_symbols, in the order the loops walk them
SelectedSymbols == <<"BTCUSDT", "ETHUSDT">>

WeakFinding == SymbolFinding("ACTIVE", TRUE, << ConfidentSignal("SELL", 100, 105, 90, 50) >>)

\* what a cycle can learn about a symbol: asleep, not worth trading, a weak
\* signal, a signal at the threshold, a weak and a strong signal
FindingChoices ==
    { SymbolFinding("SLEEP", TRUE, << ConfidentSignal("BUY", 100, 95, 110, 90) >>),
      SymbolFinding("ACTIVE", FALSE, << ConfidentSignal("BUY", 100, 95, 110, 90) >>),
      WeakFinding,
      SymbolFinding("AGGRESSIVE", TRUE, << ConfidentSignal("BUY", 100, 95, 110, 60) >>),
      SymbolFinding("AGGRESSIVE", TRUE, << ConfidentSignal("SELL", 100, 105, 90, 50),
                                           ConfidentSignal("BUY", 100, 95, 110, 80) >>) }

StrongFinding == SymbolFinding("ACTIVE", TRUE, << ConfidentSignal("SELL", 100, 105, 90, 70) >>)

\* the first symbol in any condition beside a weak second one, or a strong
\* second symbol beside a weak first one
CycleFindings ==
    { [s \in Range(SelectedSymbols) |-> IF s = SelectedSymbols[1] THEN first ELSE WeakFinding] :
        first \in FindingChoices }
    \cup { [s \in Range(SelectedSymbols) |->
                IF s = SelectedSymbols[1] THEN WeakFinding ELSE StrongFinding] }

CycleInput(healthy, findings, fetched, order_failed) ==
    [ healthy |-> healthy, findings |-> findings, fetched |-> fetched,
      position_size |-> 100, order_failed |-> order_failed ]

\* a failing health check, or a passing one with findings, candles for the gate
\* and the answer of the exchange to the order
CycleInputs ==
    { CycleInput(FALSE, CHOOSE f \in CycleFindings : TRUE, CHOOSE k \in CycleKlines : TRUE, FALSE) }
    \cup { CycleInput(TRUE, findings, fetched, order_failed) :
            findings \in CycleFindings, fetched \in CycleKlines, order_failed \in BOOLEAN }

\* _execute_multi_symbol_cycle called by the worker thread
ExecuteMultiSymbolCycle ==
    /\ sys.kind = "fakeout"
    /\ lock = 0
    /\ \E a \in CycleInputs :
        LET best == analyze_all_symbols(SelectedSymbols, a.findings)
            c == execute_multi_symbol_cycle(rm, gate, pm, sys, a.healthy, TRUE, best,
                                            a.fetched, a.position_size, a.order_failed, now)
        IN  /\ c.sys.trades_executed <= MaxExecuted
            /\ rm' = c.rm
            /\ gate' = c.gate
            /\ pm' = c.pm
            /\ sys' = c.sys
            /\ ret' = Ret(c.raised = "", IF c.raised = "" THEN c.skip_reason ELSE c.raised,
                          c.placed, <<c.symbol>>)
            /\ args' = <<a>>
    /\ op' = "_execute_multi_symbol_cycle"
    /\ UNCHANGED <<now, trip_at, mse, out, lock, pc, targ, held, worker, Peripherals>>

\* the fakeout system trading live
InitCycle ==
    /\ InitObjects
    /\ pm = PositionManagerInit(gate_max_positions)
    /\ sys = StrategySystemInit("fakeout", FALSE)
    /\ worker = WorkerInit(InitialState(sys.kind))

\* a closed trade whose loss reaches the RiskManager
LosingTrade ==
    /\ rm.total_trades < MaxExecuted
    /\ rm' = update_pnl(rm, 0 - 20, now)
    /\ trip_at' = IF TripCondition(rm') THEN now ELSE trip_at
    /\ op' = "update_pnl"
    /\ ret' = NoRet
    /\ args' = <<0 - 20>>
    /\ UNCHANGED <<now, gate, mse, out>>
    /\ UNCHANGED PositionObjects

\* cycles of the worker thread while losses arrive and time passes
NextCycle ==
    \/ Tick
    \/ LosingTrade
    \/ ExecuteMultiSymbolCycle

SpecCycle == InitCycle /\ [][NextCycle]_vars

\* the cycle that ended in the step sent at least one market order
OrderPlaced == op' = "_execute_multi_symbol_cycle" /\ ret'.val >= 1

\* the findings of that cycle about the symbol it traded
TradedFinding == args'[1].findings[ret'.pos[1]]

\* C24: a cycle places an opening order only if, in that cycle, the health
\* check passed, is_allowed_to_trade returned True, the state of the traded
\* symbol was not SLEEP, the value filter accepted it, it had a signal of
\* confidence >= 0.6 and ExecutionGate.check returned True on that signal
C24_OrderOnlyAfterAllChecks ==
    [][OrderPlaced =>
        /\ args'[1].healthy
        /\ is_allowed_to_trade(rm, now).ret.ok
        /\ TradedFinding.state # "SLEEP"
        /\ TradedFinding.is_worth_trading
        /\ ~args'[1].fetched.raises
        /\ \E i \in DOMAIN TradedFinding.signals :
            /\ TradedFinding.signals[i].confidence >= min_confidence_threshold
            /\ check(gate, pm, Signal(TRUE, TradedFinding.signals[i].entry_price,
                                      TradedFinding.signals[i].stop_loss),
                     args'[1].fetched.klines, min_stop_loss_distance, now).ok]_vars

\* a live cycle has sent the opening order of a position
C24_Witness ==
    /\ op = "_execute_multi_symbol_cycle"
    /\ ret.val = 1
    /\ ~sys.enable_simulation
    /\ ret.pos[1] \in DOMAIN pm.positions

\* C29: a cycle that sends an opening order trades a symbol without an active
\* position, add_position succeeds after an accepted order, and no second,
\* closing order is sent
C29_NoOrderForHeldSymbol ==
    [][OrderPlaced =>
        /\ ret'.pos[1] \notin DOMAIN pm.positions
        /\ ret'.val = 1
        /\ ~args'[1].order_failed => ret'.pos[1] \in DOMAIN pm'.positions]_vars

-----------------------------------------------------------------------------
(* start() and stop() of one system instance, called again and again *)

\* threads that start() may create in one run
MaxStarts == 2

\* the targets of the worker threads that start() creates
LoopTargets == {"_main_loop", "_run_loop"}

Workers == { i \in DOMAIN threads.spawned : threads.spawned[i].target \in LoopTargets }

\* the Thread object that self.thread refers to, 0 for None
SelfThread == IF Workers = {} THEN 0 ELSE CHOOSE i \in Workers : \A j \in Workers : j <= i

Alive(i) == threads.spawned[i].pc # "done"

\* start(): refused only while self.state is RUNNING; sets the flag and the
\* state and puts a new Thread into self.thread, whatever the old one does
StartThread ==
    /\ threads.owner = "idle"
    /\ sys.kind \in LoopKinds
    /\ IF worker.state = "RUNNING"
         THEN /\ ret' = Ret(FALSE, "", 0, <<>>)
              /\ UNCHANGED <<worker, threads>>
         ELSE /\ Cardinality(Workers) < MaxStarts
              /\ ret' = Ret(TRUE, "", 0, <<>>)
              /\ worker' = [worker EXCEPT !.running = TRUE, !.state = "RUNNING"]
              /\ threads' = [threads EXCEPT !.spawned =
                    Append(@, Thread(IF sys.kind = "engine" THEN "_run_loop" ELSE "_main_loop",
                                     "test"))]
    /\ op' = "start"
    /\ args' = <<>>
    /\ UNCHANGED <<rm, gate, pm, sys, now, trip_at, mse, out, lock, pc, targ, held,
                   fetcher, exchange>>

\* stop(): clears the flag, sets STOPPED and, if self.thread is set, waits in
\* self.thread.join(timeout=...)
StopThread ==
    /\ threads.owner = "idle"
    /\ worker' = [worker EXCEPT !.running = FALSE, !.state = "STOPPED"]
    /\ threads' = [threads EXCEPT !.owner = IF SelfThread > 0 THEN "join" ELSE "idle"]
    /\ op' = "stop"
    /\ ret' = NoRet
    /\ args' = <<>>
    /\ UNCHANGED <<rm, gate, pm, sys, now, trip_at, mse, out, lock, pc, targ, held,
                   fetcher, exchange>>

\* what outlasts the timeout of join: a cycle waiting for the network, and the
\* sleep of the exception handler (30 s against 10 s, 10 s against 5 s)
Outlasts(i) == threads.spawned[i].pc \in {"body", "backoff"}

\* join(timeout) returns: the thread has ended, or the timeout has passed
JoinReturns ==
    /\ threads.owner = "join"
    /\ ~Alive(SelfThread) \/ Outlasts(SelfThread)
    /\ threads' = [threads EXCEPT !.owner = "idle"]
    /\ op' = "join"
    /\ ret' = Ret(~Alive(SelfThread), IF Alive(SelfThread) THEN "timeout" ELSE "", 0, <<>>)
    /\ args' = <<>>
    /\ UNCHANGED <<rm, gate, pm, sys, worker, now, trip_at, mse, out, lock, pc, targ, held,
                   fetcher, exchange>>

MoveThread(i, at) == [threads EXCEPT !.spawned[i].pc = at]

\* `while self.running:` of thread i
ThreadTest(i) ==
    /\ threads.spawned[i].pc = "test"
    /\ threads' = MoveThread(i, IF worker.running THEN "body" ELSE "done")
    /\ op' = "while"
    /\ ret' = NoRet
    /\ args' = <<i>>
    /\ UNCHANGED <<rm, gate, pm, sys, worker, now, trip_at, mse, out, lock, pc, targ, held,
                   fetcher, exchange>>

\* the cycles a worker is given here: a failed health check, or a signal whose
\* candles cannot be fetched
RestartCycles == { [healthy |-> FALSE], [healthy |-> TRUE] }

\* one iteration of _main_loop in thread i, up to its time.sleep
ThreadMainLoop(i) ==
    /\ threads.spawned[i] = Thread("_main_loop", "body")
    /\ IF worker.state = "PAUSED"
         THEN /\ ret' = NoRet
              /\ UNCHANGED <<rm, gate, pm, sys, worker>>
         ELSE \E a \in RestartCycles :
                LET best == CHOOSE b \in BestResults(sys.kind) : b # <<>>
                    fetched == CHOOSE k \in CycleKlines : k.raises
                    c == execute_multi_symbol_cycle(rm, gate, pm, sys, a.healthy, TRUE, best,
                                                    fetched, 100, FALSE, now)
                IN  /\ rm' = c.rm
                    /\ gate' = c.gate
                    /\ pm' = c.pm
                    /\ sys' = c.sys
                    /\ ret' = Ret(c.raised = "",
                                  IF c.raised = "" THEN c.skip_reason ELSE c.raised, 0, <<>>)
                    /\ worker' = [worker EXCEPT
                            !.state = IF c.raised = "" THEN @ ELSE "ERROR",
                            !.total_loops = IF @ < MaxLoops THEN @ + 1 ELSE @]
    /\ threads' = MoveThread(i, IF ret'.ok THEN "sleep" ELSE "backoff")
    /\ op' = "cycle"
    /\ args' = <<i>>
    /\ UNCHANGED <<now, trip_at, mse, out, lock, pc, targ, held, fetcher, exchange>>

\* one iteration of _run_loop in thread i, up to its time.sleep
ThreadRunLoop(i) ==
    /\ threads.spawned[i] = Thread("_run_loop", "body")
    /\ IF worker.state # "RUNNING"
         THEN /\ ret' = NoRet
              /\ UNCHANGED worker
         ELSE \E outcome \in {"done", "swallowed", "raised"} :
                /\ worker' = [worker EXCEPT
                        !.state = IF outcome = "raised" THEN "ERROR" ELSE @,
                        !.last_execution = IF outcome = "done" THEN now ELSE @]
                /\ ret' = Ret(outcome # "raised", outcome, 0, <<>>)
    /\ threads' = MoveThread(i, IF ret'.ok THEN "sleep" ELSE "backoff")
    /\ op' = "cycle"
    /\ args' = <<i>>
    /\ UNCHANGED <<rm, gate, pm, sys, now, trip_at, mse, out, lock, pc, targ, held,
                   fetcher, exchange>>

\* time.sleep of thread i is over
ThreadWakes(i) ==
    /\ threads.spawned[i].pc \in {"sleep", "backoff"}
    /\ threads' = MoveThread(i, "test")
    /\ op' = "sleep"
    /\ ret' = NoRet
    /\ args' = <<i>>
    /\ UNCHANGED <<rm, gate, pm, sys, worker, now, trip_at, mse, out, lock, pc, targ, held,
                   fetcher, exchange>>

ThreadStep ==
    \E i \in DOMAIN threads.spawned :
        \/ ThreadTest(i)
        \/ ThreadMainLoop(i)
        \/ ThreadRunLoop(i)
        \/ ThreadWakes(i)

InitRestart ==
    /\ InitObjects
    /\ pm = PositionManagerInit(gate_max_positions)
    /\ sys \in {StrategySystemInit(k, TRUE) : k \in {"fakeout", "engine"}}
    /\ worker = WorkerInit(InitialState(sys.kind))

\* the owner starts and stops while the workers run
NextRestart ==
    \/ StartThread
    \/ StopThread
    \/ JoinReturns
    \/ ThreadStep

SpecRestart == InitRestart /\ [][NextRestart]_vars

\* the threads that have passed `while self.running` and are in the loop body
InMainLoop == { i \in Workers : threads.spawned[i].pc = "body" }

\* C27: at most one worker thread of an instance executes the main loop at any
\* time, whatever start() and stop() calls were made
C27_OneWorkerInLoop == Cardinality(InMainLoop) <= 1

-----------------------------------------------------------------------------
(* The position-synchronisation thread that the constructors launch *)

\* self.state when the constructor returns: _initialize of the fvg system ends
\* with RUNNING
Initialized(kind) == IF kind = "fvg" THEN "RUNNING" ELSE InitialState(kind)

SyncThreads ==
    { i \in DOMAIN threads.spawned : threads.spawned[i].target = "_sync_positions_loop" }

\* one iteration of MultiSymbolFakeoutSystem._sync_positions_loop: the sleep
\* outside RUNNING, else get_positions, whose answer is a list, and `.get` on it
SyncLoopFakeout(i) ==
    /\ sys.kind = "fakeout"
    /\ i \in SyncThreads
    /\ threads.spawned[i].pc = "body"
    /\ ret' = IF worker.state # "RUNNING" THEN NoRet ELSE Raise("AttributeError")
    /\ threads' = MoveThread(i, IF ret'.ok THEN "sleep" ELSE "backoff")
    /\ op' = "_sync_positions_loop"
    /\ args' = <<i>>
    /\ UNCHANGED <<rm, gate, pm, sys, worker, now, trip_at, mse, out, lock, pc, targ, held,
                   fetcher, exchange>>

\* one iteration of FVGLiquidityStrategySystem._sync_positions_loop:
\* sync_positions returns at once without positions and walks them otherwise
SyncLoopFvg(i) ==
    /\ sys.kind = "fvg"
    /\ i \in SyncThreads
    /\ threads.spawned[i].pc = "body"
    /\ lock = 0
    /\ threads' = MoveThread(i, IF pm.position_count = 0 THEN "sleep" ELSE "walk")
    /\ op' = "sync_positions"
    /\ ret' = NoRet
    /\ args' = <<i>>
    /\ UNCHANGED <<rm, gate, pm, sys, worker, now, trip_at, mse, out, lock, pc, targ, held,
                   fetcher, exchange>>

SyncStep ==
    \E i \in DOMAIN threads.spawned :
        \/ ThreadTest(i)
        \/ ThreadMainLoop(i)
        \/ ThreadWakes(i)
        \/ SyncLoopFakeout(i)
        \/ SyncLoopFvg(i)

\* a strategy system whose constructor has just returned
InitSync ==
    /\ InitComponents
    /\ threads = [ThreadsInit EXCEPT !.spawned = <<Thread("_sync_positions_loop", "test")>>]
    /\ op = "init"
    /\ args = <<>>
    /\ pm = PositionManagerInit(gate_max_positions)
    /\ sys \in {StrategySystemInit(k, TRUE) : k \in SystemKinds}
    /\ worker = WorkerInit(Initialized(sys.kind))

NextSync ==
    \/ StartThread
    \/ StopThread
    \/ JoinReturns
    \/ Pause
    \/ SyncStep

SpecSync == InitSync /\ [][NextSync]_vars

\* C28: while the system is running, the position-synchronisation thread that
\* the constructor launched is alive
C28_SyncLoopAlive ==
    worker.running => \E i \in SyncThreads : Alive(i)

-----------------------------------------------------------------------------
(* The threads that watch an open position of FVGLiquidityStrategySystem *)

\* market orders the exchange is sent in one run
MaxOrders == 3

\* a thread that walks positions: the symbols it still has to look at and the
\* price it fetched for the first of them (0 before the fetch)
Watcher(target, at, todo, price) ==
    [ target |-> target, pc |-> at, todo |-> todo, price |-> price ]

\* the position the watchers watch, opened by a BUY signal
WatchedSignal == TradeSignal("BUY", 100, 95, 110)

\* what a price request returns: 0 for an error or no price, else the price
WatchedPrices == {0, 94, 100}

\* data_fetcher.get_current_price(symbol): a price, or nothing when the
\* request fails
get_current_price(answer) == answer

\* execution_gate.check_stop_take_profit(position, current_price): whether the
\* position's stop-loss or take-profit is hit at the price
check_stop_take_profit(p, current_price) ==
    should_stop_loss(p, current_price) \/ should_take_profit(p, current_price)

\* the Position object behind a reference taken earlier: close_position marks
\* it closed when it takes it out of the map
Referenced(m, symbol) ==
    IF symbol \in DOMAIN m.positions THEN m.positions[symbol]
    ELSE [Position(symbol, "LONG", 0, 0, 0, 0) EXCEPT !.status = "STOPPED"]

\* trading_client.place_market_order as the exchange sees it
MarketOrder(symbol, by, accepted) == [ symbol |-> symbol, by |-> by, accepted |-> accepted ]

Watch(i, at, todo, price) ==
    [threads EXCEPT !.spawned[i].pc = at, !.spawned[i].todo = todo, !.spawned[i].price = price]

WatchFrame == <<rm, gate, sys, worker, now, trip_at, mse, out, lock, pc, targ, held, fetcher>>

\* sync_positions after the count check: positions = self.get_all_positions()
SyncSnapshot(i) ==
    /\ i \in SyncThreads
    /\ threads.spawned[i].pc = "walk"
    /\ lock = 0
    /\ LET todo == IF "BTCUSDT" \in DOMAIN pm.positions THEN <<"BTCUSDT">> ELSE <<>>
       IN  threads' = Watch(i, IF todo = <<>> THEN "sleep" ELSE "fetch", todo, 0)
    /\ op' = "get_all_positions"
    /\ ret' = NoRet
    /\ args' = <<i>>
    /\ UNCHANGED <<pm, exchange>>
    /\ UNCHANGED WatchFrame

\* sync_positions, one position: the ticker request and the two tests
SyncObserve(i) ==
    /\ i \in SyncThreads
    /\ threads.spawned[i].pc = "fetch"
    /\ \E price \in WatchedPrices :
        LET position == Referenced(pm, threads.spawned[i].todo[1])
            hit == /\ price # 0
                   /\ \/ should_take_profit(position, price)
                      \/ should_stop_loss(position, price)
            rest == Tail(threads.spawned[i].todo)
        IN  /\ threads' = IF hit THEN Watch(i, "order", threads.spawned[i].todo, price)
                          ELSE Watch(i, IF rest = <<>> THEN "sleep" ELSE "fetch", rest, 0)
            /\ ret' = Ret(hit, "", price, <<>>)
    /\ op' = "sync_positions_check"
    /\ args' = <<i>>
    /\ UNCHANGED <<pm, exchange>>
    /\ UNCHANGED WatchFrame

\* close_position(symbol, exit_price, reason) on the manager
close_position(m, symbol) ==
    IF symbol \in DOMAIN m.positions THEN close_position_remove(m, symbol) ELSE m

\* sync_positions, one position: place_market_order and, if it is accepted,
\* close_position(symbol, current_price, reason)
SyncOrder(i) ==
    /\ i \in SyncThreads
    /\ threads.spawned[i].pc = "order"
    /\ Len(exchange.orders) < MaxOrders
    /\ lock = 0
    /\ \E accepted \in BOOLEAN :
        LET symbol == threads.spawned[i].todo[1]
            rest == Tail(threads.spawned[i].todo)
        IN  /\ exchange' = [exchange EXCEPT !.orders =
                                Append(@, MarketOrder(symbol, "sync_positions", accepted))]
            /\ pm' = IF accepted THEN close_position(pm, symbol) ELSE pm
            /\ threads' = Watch(i, IF rest = <<>> THEN "sleep" ELSE "fetch", rest, 0)
            /\ ret' = Ret(accepted, "", 0, <<>>)
    /\ op' = "sync_positions_order"
    /\ args' = <<i>>
    /\ UNCHANGED WatchFrame

MonitorThreads ==
    { i \in DOMAIN threads.spawned : threads.spawned[i].target = "_monitor_position" }

\* _monitor_position, one round up to the decision: get_position, the price,
\* check_stop_take_profit
MonitorObserve(i) ==
    /\ i \in MonitorThreads
    /\ threads.spawned[i].pc = "body"
    /\ lock = 0
    /\ \E answer \in WatchedPrices :
        LET symbol == threads.spawned[i].todo[1]
            current_price == get_current_price(answer)
            should_close == check_stop_take_profit(pm.positions[symbol], current_price)
        IN  /\ threads' =
                IF symbol \notin DOMAIN pm.positions THEN Watch(i, "done", <<symbol>>, 0)
                ELSE IF current_price = 0 THEN Watch(i, "sleep", <<symbol>>, 0)
                ELSE IF should_close THEN Watch(i, "order", <<symbol>>, current_price)
                ELSE Watch(i, "sleep", <<symbol>>, 0)
            /\ ret' = Ret(threads'.spawned[i].pc = "order", "", current_price, <<>>)
    /\ op' = "_monitor_position"
    /\ args' = <<i>>
    /\ UNCHANGED <<pm, exchange>>
    /\ UNCHANGED WatchFrame

\* _monitor_position after the decision: place_market_order and, if it is
\* accepted, close_position(symbol), which lacks exit_price: the TypeError
\* ends the thread in its handler and the position stays
MonitorOrder(i) ==
    /\ i \in MonitorThreads
    /\ threads.spawned[i].pc = "order"
    /\ Len(exchange.orders) < MaxOrders
    /\ \E accepted \in BOOLEAN :
        /\ exchange' = [exchange EXCEPT !.orders =
                Append(@, MarketOrder(threads.spawned[i].todo[1], "_monitor_position", accepted))]
        /\ ret' = IF accepted THEN Raise("TypeError") ELSE NoRet
    /\ threads' = Watch(i, "done", threads.spawned[i].todo, 0)
    /\ op' = "_monitor_position_order"
    /\ args' = <<i>>
    /\ UNCHANGED pm
    /\ UNCHANGED WatchFrame

WatchStep ==
    \E i \in DOMAIN threads.spawned :
        \/ ThreadTest(i)
        \/ ThreadWakes(i)
        \/ SyncLoopFvg(i)
        \/ SyncSnapshot(i)
        \/ SyncObserve(i)
        \/ SyncOrder(i)
        \/ MonitorObserve(i)
        \/ MonitorOrder(i)

\* the live fvg system, running, after _execute_trade has opened a position
\* and started its monitor thread; the sync thread is the one of the
\* constructor, and the worker of the main loop sleeps
InitWatch ==
    /\ now = 0
    /\ ret = NoRet
    /\ rm = RiskManagerInit
    /\ trip_at = NoTime
    /\ lock = 0
    /\ pc = [t \in Threads |-> "idle"]
    /\ targ = [t \in Threads |-> <<>>]
    /\ mse = MarketStateEngineInit("ETHUSDT", TRUE)
    /\ out = [s \in {} |-> 0]
    /\ held = [t \in Threads |-> <<>>]
    /\ fetcher = DataFetcherInit
    /\ exchange = ExchangeInit
    /\ LET e == execute_trade_fvg(ExecutionGateInit, PositionManagerInit(gate_max_positions),
                                  StrategySystemInit("fvg", FALSE), "BTCUSDT",
                                  <<WatchedSignal>>, 100, FALSE, now)
       IN  /\ gate = e.gate
           /\ pm = e.pm
           /\ sys = e.sys
    /\ worker = [WorkerInit("RUNNING") EXCEPT !.running = TRUE]
    /\ threads = [ThreadsInit EXCEPT !.spawned =
            << Watcher("_sync_positions_loop", "test", <<>>, 0),
               Watcher("_monitor_position", "test", <<"BTCUSDT">>, 0) >>]
    /\ op = "init"
    /\ args = <<>>

NextWatch ==
    \/ StopThread
    \/ WatchStep

SpecWatch == InitWatch /\ [][NextWatch]_vars

\* the closing orders the exchange accepted for the watched position
AcceptedOrders == { k \in DOMAIN exchange.orders : exchange.orders[k].accepted }

\* C26: for one open position at most one closing market order reaches the
\* exchange, whichever threads watch it
C26_OneClosingOrder == Cardinality(AcceptedOrders) <= 1

-----------------------------------------------------------------------------
(* The monitor threads of MultiSymbolFakeoutSystem closing their positions *)

\* a monitor thread: its symbol, the price it acts on, the PnL of the position
\* it closed and the total_trades it has loaded for `+= 1`
Closer(at, symbol, price, pnl, loaded) ==
    [ target |-> "_monitor_position", pc |-> at, symbol |-> symbol, price |-> price,
      pnl |-> pnl, loaded |-> loaded ]

\* trading_client.get_ticker(symbol): lastPrice, 0 standing for an error answer
TickerPrices == {0, 85, 100, 115}

get_ticker(answer) == [ error |-> answer = 0, lastPrice |-> answer ]

CloserFrame == <<gate, sys, worker, now, trip_at, mse, out, lock, pc, targ, held, fetcher>>

\* _monitor_position, one round: get_position, the ticker, the two tests
FakeoutMonitor(i) ==
    /\ threads.spawned[i].pc = "body"
    /\ lock = 0
    /\ \E answer \in TickerPrices :
        LET symbol == threads.spawned[i].symbol
            ticker == get_ticker(answer)
            position == pm.positions[symbol]
            at == IF symbol \notin DOMAIN pm.positions THEN "done"
                  ELSE IF ticker.error \/ ticker.lastPrice <= 0 THEN "sleep"
                  ELSE IF should_stop_loss(position, ticker.lastPrice) THEN "close"
                  ELSE IF should_take_profit(position, ticker.lastPrice) THEN "close"
                  ELSE "sleep"
        IN  /\ threads' = [threads EXCEPT !.spawned[i].pc = at,
                                          !.spawned[i].price = ticker.lastPrice]
            /\ ret' = Ret(at = "close", "", ticker.lastPrice, <<>>)
    /\ op' = "_monitor_position"
    /\ args' = <<i>>
    /\ UNCHANGED <<rm, pm, exchange>>
    /\ UNCHANGED CloserFrame

\* _close_position_by_signal up to close_position: the closing order and,
\* whatever its result, close_position(symbol, exit_price, reason)
ClosePositionBySignal(i) ==
    /\ threads.spawned[i].pc = "close"
    /\ Len(exchange.orders) < MaxOrders
    /\ lock = 0
    /\ \E accepted \in BOOLEAN :
        LET symbol == threads.spawned[i].symbol
            exit_price == threads.spawned[i].price
            found == symbol \in DOMAIN pm.positions
            closed == closed_position(pm.positions[symbol], exit_price, now)
        IN  /\ exchange' = IF found
                    THEN [exchange EXCEPT !.orders =
                            Append(@, MarketOrder(symbol, "_close_position_by_signal", accepted))]
                    ELSE exchange
            /\ pm' = close_position(pm, symbol)
            /\ threads' = [threads EXCEPT
                    !.spawned[i].pc = IF found THEN "update_pnl" ELSE "done",
                    !.spawned[i].pnl = IF found THEN closed.pnl ELSE 0]
            /\ ret' = Ret(found, "", IF found THEN closed.pnl ELSE 0, <<>>)
    /\ op' = "_close_position_by_signal"
    /\ args' = <<i>>
    /\ UNCHANGED rm
    /\ UNCHANGED CloserFrame

\* update_pnl up to the load of `self.metrics.total_trades += 1`: the two sums
\* before it are written, the counter is read
UpdatePnlLoad(i) ==
    /\ threads.spawned[i].pc = "update_pnl"
    /\ rm' = [rm EXCEPT !.total_pnl = @ + threads.spawned[i].pnl,
                        !.daily_pnl = @ + threads.spawned[i].pnl]
    /\ threads' = [threads EXCEPT !.spawned[i].pc = "store",
                                  !.spawned[i].loaded = rm.total_trades]
    /\ op' = "update_pnl_load"
    /\ ret' = NoRet
    /\ args' = <<i>>
    /\ UNCHANGED <<pm, exchange>>
    /\ UNCHANGED CloserFrame

\* the rest of update_pnl on r, whose two sums already hold pnl: the counter is
\* stored as loaded + 1
update_pnl_store(r, pnl, loaded, t) ==
    [update_pnl([r EXCEPT !.total_pnl = @ - pnl, !.daily_pnl = @ - pnl], pnl, t)
        EXCEPT !.total_trades = loaded + 1]

\* update_pnl from the store of the counter to its end
UpdatePnlStore(i) ==
    /\ threads.spawned[i].pc = "store"
    /\ rm' = update_pnl_store(rm, threads.spawned[i].pnl, threads.spawned[i].loaded, now)
    /\ threads' = MoveThread(i, "done")
    /\ op' = "update_pnl"
    /\ ret' = NoRet
    /\ args' = <<i>>
    /\ UNCHANGED <<pm, exchange>>
    /\ UNCHANGED CloserFrame

CloserStep ==
    \E i \in DOMAIN threads.spawned :
        \/ ThreadTest(i)
        \/ ThreadWakes(i)
        \/ FakeoutMonitor(i)
        \/ ClosePositionBySignal(i)
        \/ UpdatePnlLoad(i)
        \/ UpdatePnlStore(i)

\* the two trades that opened the positions, a trade interval apart
FirstTrade ==
    execute_trade_fakeout(ExecutionGateInit, PositionManagerInit(gate_max_positions),
                          StrategySystemInit("fakeout", FALSE), "BTCUSDT",
                          TradeSignal("BUY", 100, 95, 110), 100, FALSE, 0)

SecondTrade ==
    execute_trade_fakeout(FirstTrade.gate, FirstTrade.pm, FirstTrade.sys, "ETHUSDT",
                          TradeSignal("SELL", 100, 105, 90), 100, FALSE, min_trade_interval)

\* the live fakeout system, running, after _execute_trade has opened two
\* positions and started a monitor thread for each
InitClosers ==
    /\ now = min_trade_interval
    /\ ret = NoRet
    /\ rm = RiskManagerInit
    /\ trip_at = NoTime
    /\ lock = 0
    /\ pc = [t \in Threads |-> "idle"]
    /\ targ = [t \in Threads |-> <<>>]
    /\ mse = MarketStateEngineInit("ETHUSDT", TRUE)
    /\ out = [s \in {} |-> 0]
    /\ held = [t \in Threads |-> <<>>]
    /\ fetcher = DataFetcherInit
    /\ exchange = ExchangeInit
    /\ gate = SecondTrade.gate
    /\ pm = SecondTrade.pm
    /\ sys = SecondTrade.sys
    /\ worker = [WorkerInit("RUNNING") EXCEPT !.running = TRUE]
    /\ threads = [ThreadsInit EXCEPT !.spawned =
            << Closer("test", "BTCUSDT", 0, 0, 0), Closer("test", "ETHUSDT", 0, 0, 0) >>]
    /\ op = "init"
    /\ args = <<>>

NextClosers ==
    \/ StopThread
    \/ CloserStep

SpecClosers == InitClosers /\ [][NextClosers]_vars

\* positions closed so far: every executed trade opened one
PositionsClosed == sys.trades_executed - pm.position_count

\* no thread is between close_position and the end of update_pnl
NoCloseInFlight ==
    \A i \in DOMAIN threads.spawned : threads.spawned[i].pc \notin {"update_pnl", "store"}

\* C23: every position closed in the PositionManager has had its PnL passed to
\* update_pnl exactly once, so total_trades equals the number of positions
\* closed so far
C23_TotalTradesCountsClosed ==
    NoCloseInFlight => rm.total_trades = PositionsClosed

====
